---- MODULE Spec2Model ----
(***************************************************************************)
(* A model of the api-framework core: the registration registry, the      *)
(* dependency container, the router, the core driver adapter and the      *)
(* Application start-up sequence.                                         *)
(***************************************************************************)
EXTENDS Integers, Sequences, FiniteSets, TLC

\* ------------------------------------------------------------------------
\* Bounds of the model
\* ------------------------------------------------------------------------
MaxSymbols == 3
MaxDeps == 2
MaxBuilds == 2
\* the longest path given to @Controller or to a route decorator, in segments
MaxPathLen == 2

\* ------------------------------------------------------------------------
\* Universe of classes
\* ------------------------------------------------------------------------
Injectables == {"A", "B", "C"}
Models == {"In", "Out"}
Classes == Injectables \cup Models

\* the classes exercised when the registry is driven on its own
RegistryClasses == {"A", "In"}

ClassRegistrationType == {"Injectable", "ObjectType", "InputType"}

NoKey == 0
NoClass == "undefined"

VARIABLES
  program,            \* the classes of the application: what their decorators and register() declare
  classRegistrations, \* registration.ts: Map<symbol, ClassRegistration>, in insertion order
  typeKey,            \* the [typeKey] property stamped on each class (NoKey when absent)
  symbols,            \* number of Symbol() values minted so far
  minted,             \* history: the keys returned by registerClass, per class
  cleared,            \* history: the keys removed by clearRegistration
  controllers,        \* router.ts: Map<symbol, ControllerMetadata>
  routes,             \* router.ts: Map<symbol, RouteMetadata>, in insertion order
  containerMetadata,  \* container.ts: _containerMetadata (process-wide)
  reflect,            \* the inversify metadata decorate() has put on each class
  bindings,           \* Container.#container: the bindings, in bind order
  cache,              \* Container.#container: the singleton of each activated binding
  instances,          \* history: the objects constructed by this container, in order
  build,              \* the progress of a Container.build() call
  application,        \* the Application object: whether new Application() returned, and its #driver
  versions,           \* Application.#versions: Map<string, ApplicationVersionOptions>
  driverRoutes,       \* CoreDriverAdapter.#routes: Map<path, Map<method, route>>
  listen,             \* the progress of an Application.listen() call
  servers,            \* the number of servers Driver.listen has started
  exchange,           \* the last request handled and what became of it
  inflight,           \* the requests being handled, in the order they arrived
  call                \* the last completed call and its outcome

registryVars == <<classRegistrations, typeKey, symbols, minted, cleared>>
routerVars == <<controllers, routes>>
decorVars == <<containerMetadata, reflect>>
containerVars == <<bindings, cache, instances, build>>
appVars == <<application, versions, driverRoutes, listen, servers, exchange,
            inflight>>
vars == <<program, classRegistrations, typeKey, symbols, minted, cleared,
          controllers, routes, containerMetadata, reflect,
          bindings, cache, instances, build,
          application, versions, driverRoutes, listen, servers, exchange,
          inflight, call>>

\* ------------------------------------------------------------------------
\* Helpers on sequences
\* ------------------------------------------------------------------------
Range(s) == {s[i] : i \in 1..Len(s)}

SelectIdx(s, P(_)) == {i \in 1..Len(s) : P(s[i])}

Last(s) == s[Len(s)]

RECURSIVE Remove(_, _)
Remove(s, k) ==
  IF s = <<>> THEN <<>>
  ELSE IF Head(s).key = k THEN Remove(Tail(s), k)
  ELSE <<Head(s)>> \o Remove(Tail(s), k)

NoCall == [op |-> "none"]

\* ------------------------------------------------------------------------
\* Registration registry
\* ------------------------------------------------------------------------

\* Symbol(description): every call yields a symbol never seen before.
Symbol(n) == n + 1

\* Map.get on classRegistrations
RegistryHas(key) == \E i \in 1..Len(classRegistrations) : classRegistrations[i].key = key

RegistryGet(key) ==
  LET i == CHOOSE i \in 1..Len(classRegistrations) : classRegistrations[i].key = key
  IN  classRegistrations[i]

\* Map.set: a new key is appended, an existing key keeps its position
MapSet(m, entry) ==
  IF \E i \in 1..Len(m) : m[i].key = entry.key
  THEN [i \in 1..Len(m) |-> IF m[i].key = entry.key THEN entry ELSE m[i]]
  ELSE Append(m, entry)

\* maybeGetRegistrationKey(target): reads the stamp on the class
maybeGetRegistrationKey(target) == typeKey[target]

\* a getRegistrationKey that hands out whatever the class carries, stamp or
\* not (a plausible slip)
getRegistrationKeyUnchecked(target) ==
  [ok |-> TRUE, error |-> "none", key |-> maybeGetRegistrationKey(target)]

\* getRegistrationKey(target): the stamp, or a RegistrationError
getRegistrationKey(target) ==
  LET key == maybeGetRegistrationKey(target)
  IN  IF key = NoKey
      THEN [ok |-> FALSE, error |-> "RegistrationError", key |-> NoKey]
      ELSE [ok |-> TRUE, error |-> "none", key |-> key]

\* getClassRegistrationByKey(key)
getClassRegistrationByKey(key) ==
  IF RegistryHas(key)
  THEN [ok |-> TRUE, error |-> "none", type |-> RegistryGet(key).type,
        target |-> RegistryGet(key).target]
  ELSE [ok |-> FALSE, error |-> "RegistrationError", type |-> "none",
        target |-> NoClass]

\* a getClassRegistrations that lists the newest entry first (a plausible slip)
getClassRegistrationsNewestFirst(type) ==
  LET entries == SelectSeq(classRegistrations, LAMBDA r : r.type = type)
  IN  [i \in 1..Len(entries) |-> entries[Len(entries) - i + 1]]

\* getClassRegistrations(type): entries of one kind, in insertion order
getClassRegistrations(type) ==
  SelectSeq(classRegistrations, LAMBDA r : r.type = type)

\* a registerClass that keeps the stamp a class already carries (a plausible slip)
mintKeyOnce(target) ==
  IF typeKey[target] # NoKey THEN typeKey[target] ELSE Symbol(symbols)

\* registerClass: const key = Symbol(target.name)
mintKey(target) == Symbol(symbols)

\* the state change of registerClass({type, target})
registerClassState(type, target) ==
  LET key == mintKey(target) IN
  /\ symbols' = symbols + 1
  /\ typeKey' = [typeKey EXCEPT ![target] = key]
  /\ classRegistrations' = MapSet(classRegistrations,
                                  [key |-> key, type |-> type, target |-> target])
  /\ minted' = [minted EXCEPT ![target] = Append(@, key)]

\* registerClass called on its own
RegisterClass(type, target) ==
  /\ symbols < MaxSymbols
  /\ registerClassState(type, target)
  /\ call' = [op |-> "registerClass", target |-> target, key |-> mintKey(target)]
  /\ UNCHANGED <<program, cleared, routerVars, decorVars, containerVars, appVars>>

\* clearRegistration(target)
ClearRegistration(target) ==
  LET r == getRegistrationKey(target) IN
  /\ IF r.ok
     THEN /\ classRegistrations' = Remove(classRegistrations, r.key)
          /\ cleared' = cleared \cup {r.key}
     ELSE UNCHANGED <<classRegistrations, cleared>>
  /\ call' = [op |-> "clearRegistration", target |-> target, ok |-> r.ok]
  /\ UNCHANGED <<program, typeKey, symbols, minted, routerVars, decorVars,
                 containerVars, appVars>>

\* a getRegistrationKey call observed from outside
GetRegistrationKey(target) ==
  LET r == getRegistrationKey(target) IN
  /\ call' = [op |-> "getRegistrationKey", target |-> target, ok |-> r.ok,
              error |-> r.error, key |-> r.key]
  /\ UNCHANGED <<program, registryVars, routerVars, decorVars, containerVars,
                 appVars>>

\* a getClassRegistrationByKey call observed from outside
GetClassRegistrationByKey(key) ==
  LET r == getClassRegistrationByKey(key) IN
  /\ call' = [op |-> "getClassRegistrationByKey", key |-> key, ok |-> r.ok,
              error |-> r.error, type |-> r.type, target |-> r.target]
  /\ UNCHANGED <<program, registryVars, routerVars, decorVars, containerVars,
                 appVars>>

\* ------------------------------------------------------------------------
\* The application's classes
\* ------------------------------------------------------------------------
\* program.dependencies[c]  what c.prototype.register() resolves to: the
\*                          class of each dependency descriptor (NoClass for
\*                          a descriptor without a class reference)
\* program.hasRegister[c]   whether c.prototype.register is a function
\* program.name[c]          c.name
\* program.path[c]          the path given to @Controller, or NoPath for @Service
\* program.methods[c]       the methods carrying a route decorator, in order
NoPath == <<"@Service">>

\* the constructor of a class takes one parameter per declared dependency
Arity(c) == Len(program.dependencies[c])

\* ------------------------------------------------------------------------
\* Router metadata
\* ------------------------------------------------------------------------
ControllersHas(key) == \E m \in controllers : m.key = key

ControllersGet(key) == CHOOSE m \in controllers : m.key = key

\* controllers.set(key, metadata)
ControllersSet(key, path) ==
  {m \in controllers : m.key # key} \cup {[key |-> key, path |-> path]}

\* registerRoute(key, metadata) that overwrites (a plausible slip)
registerRouteOverwrite(rs, metadata) == MapSet(rs, metadata)

\* a registerRoute that adds an entry on every call (a plausible slip)
registerRouteAgain(rs, metadata) == Append(rs, metadata)

\* registerRoute(key, metadata): only the first registration of a key is kept
registerRoute(rs, metadata) ==
  IF \E i \in 1..Len(rs) : rs[i].key = metadata.key THEN rs ELSE Append(rs, metadata)

\* getRouteMetadataByController(controllerKey)
getRouteMetadataByController(controllerKey) ==
  SelectSeq(routes, LAMBDA r : r.controller = controllerKey)

\* the class decorator of an injectable runs: @Controller(path) or @Service()
DefineInjectable(target) ==
  /\ registerClassState("Injectable", target)
  /\ controllers' = IF program.path[target] # NoPath
                    THEN ControllersSet(mintKey(target), program.path[target])
                    ELSE controllers

\* ------------------------------------------------------------------------
\* Dependency container
\* ------------------------------------------------------------------------
NoError == "none"

\* the message of an error, as the sequence of its parts
NoMessage == <<>>

\* key.description: registerClass mints Symbol(target.name)
SymbolDescription(key) ==
  program.name[CHOOSE c \in Injectables : \E i \in 1..Len(minted[c]) : minted[c][i] = key]

\* getRegistrationDefinition(ctx, target)
getRegistrationDefinition(target) ==
  IF ~program.hasRegister[target]
  THEN [ok |-> FALSE, error |-> "RegistrationError",
        message |-> <<"No registration function register() defined for injectable: ",
                      program.name[target]>>,
        dependencies |-> <<>>]
  ELSE [ok |-> TRUE, error |-> NoError, message |-> NoMessage,
        dependencies |-> program.dependencies[target]]

\* a Container.build that passes over a descriptor without a class (a
\* plausible slip)
RECURSIVE paramKeysSkipping(_, _, _)
paramKeysSkipping(description, dependencies, idx) ==
  IF dependencies = <<>>
  THEN [ok |-> TRUE, error |-> NoError, message |-> NoMessage, position |-> -1,
        keys |-> <<>>]
  ELSE IF Head(dependencies) = NoClass
  THEN paramKeysSkipping(description, Tail(dependencies), idx + 1)
  ELSE LET r == getRegistrationKey(Head(dependencies)) IN
       IF ~r.ok
       THEN [ok |-> FALSE, error |-> r.error, message |-> NoMessage,
             position |-> idx, keys |-> <<>>]
       ELSE LET rest == paramKeysSkipping(description, Tail(dependencies), idx + 1)
            IN  IF rest.ok THEN [rest EXCEPT !.keys = <<r.key>> \o @] ELSE rest

\* Container.build: dependencies.map((c, idx) => ...), idx counted from 0
RECURSIVE paramKeys(_, _, _)
paramKeys(description, dependencies, idx) ==
  IF dependencies = <<>>
  THEN [ok |-> TRUE, error |-> NoError, message |-> NoMessage, position |-> -1,
        keys |-> <<>>]
  ELSE IF Head(dependencies) = NoClass
  THEN [ok |-> FALSE, error |-> "ContainerError",
        message |-> <<"Unable to register ", description,
                      ": unsupported parameter definition at position ",
                      ToString(idx)>>,
        position |-> idx, keys |-> <<>>]
  ELSE LET r == getRegistrationKey(Head(dependencies)) IN
       IF ~r.ok
       THEN [ok |-> FALSE, error |-> r.error, message |-> NoMessage,
             position |-> idx, keys |-> <<>>]
       ELSE LET rest == paramKeys(description, Tail(dependencies), idx + 1) IN
            IF rest.ok THEN [rest EXCEPT !.keys = <<r.key>> \o @] ELSE rest

\* Container.#registerSingleton, the loop over dependencyTokens: index only
\* advances when a parameter is decorated.  st = [index, inject, tags, error]
RECURSIVE decorateParameters(_, _, _)
decorateParameters(st, name, dependencyTokens) ==
  IF dependencyTokens = <<>> \/ st.error # NoError THEN st
  ELSE LET injectKey == <<name, st.index>> IN
       IF injectKey \notin st.inject
       THEN IF st.index # Len(st.tags)
            THEN [st EXCEPT !.error = "Error"]  \* inversify: metadata used twice
            ELSE decorateParameters(
                   [index |-> st.index + 1,
                    inject |-> st.inject \cup {injectKey},
                    tags |-> Append(st.tags, Head(dependencyTokens)),
                    error |-> NoError],
                   name, Tail(dependencyTokens))
       ELSE decorateParameters(st, name, Tail(dependencyTokens))

\* a binding in transient scope: nothing is cached (a plausible slip)
inTransientScope(c, token, inst) == c

\* .inSingletonScope(): the first instance of a binding is kept
inSingletonScope(c, token, inst) == c \cup {[token |-> token, inst |-> inst]}

\* a registerSingleton that wants every dependency bound before the class
\* that names it (a plausible slip)
registerSingletonBoundFirst(token, target, dependencyTokens) ==
  LET name == program.name[target]
      fresh == name \notin containerMetadata.injectable
      st == decorateParameters(
              [index |-> 0, inject |-> containerMetadata.inject,
               tags |-> reflect[target].inject, error |-> NoError],
              name, dependencyTokens)
  IN  [error |-> IF \E i \in 1..Len(dependencyTokens) :
                      \A j \in 1..Len(bindings) :
                         bindings[j].token # dependencyTokens[i]
                 THEN "Error" ELSE st.error,
       containerMetadata |-> [injectable |-> containerMetadata.injectable \cup {name},
                              inject |-> st.inject],
       reflect |-> [reflect EXCEPT ![target] =
                      [injectable |-> @.injectable \/ fresh, inject |-> st.tags]],
       bindings |-> Append(bindings, [token |-> token, target |-> target])]

\* Container.#registerSingleton(token, target, ...dependencyTokens)
registerSingleton(token, target, dependencyTokens) ==
  LET name == program.name[target]
      fresh == name \notin containerMetadata.injectable
      st == decorateParameters(
              [index |-> 0, inject |-> containerMetadata.inject,
               tags |-> reflect[target].inject, error |-> NoError],
              name, dependencyTokens)
  IN  [error |-> IF fresh /\ reflect[target].injectable THEN "Error" ELSE st.error,
       containerMetadata |-> [injectable |-> containerMetadata.injectable \cup {name},
                              inject |-> st.inject],
       reflect |-> [reflect EXCEPT ![target] =
                      [injectable |-> @.injectable \/ fresh, inject |-> st.tags]],
       bindings |-> Append(bindings, [token |-> token, target |-> target])]

\* the initializers the route decorators (Get, Post) add to a controller:
\* they run, in method order, each time the class is constructed
RECURSIVE runInitializers(_, _, _)
runInitializers(rs, target, methods) ==
  IF methods = <<>> THEN [routes |-> rs, error |-> NoError]
  ELSE LET m == Head(methods)
           classKey == getRegistrationKey(target)
           body == IF m.body # NoClass THEN getRegistrationKey(m.body)
                   ELSE [ok |-> TRUE, error |-> NoError, key |-> NoKey]
       IN  IF ~classKey.ok THEN [routes |-> rs, error |-> classKey.error]
           ELSE IF ~body.ok THEN [routes |-> rs, error |-> body.error]
           ELSE runInitializers(
                  registerRoute(rs, [key |-> m.key, method |-> m.method,
                                     path |-> m.path, controller |-> classKey.key,
                                     methodName |-> m.methodName, body |-> body.key]),
                  target, Tail(methods))

\* inversify: the bindings of a service identifier
BindingsFor(token) == SelectSeq(bindings, LAMBDA b : b.token = token)

IsCached(c, token) == \E e \in c : e.token = token

CachedInstance(c, token) == (CHOOSE e \in c : e.token = token).inst

\* inversify planning: the whole request tree is validated before anything
\* is constructed; a binding that is already activated is not descended into.
\* c is the singleton cache at the time of the call
RECURSIVE planError(_, _)
RECURSIVE planErrorAll(_, _)
planError(c, token) ==
  LET bs == BindingsFor(token) IN
  IF Len(bs) = 0 THEN "NoMatchingBindings"
  ELSE IF Len(bs) > 1 THEN "AmbiguousMatch"
  ELSE IF IsCached(c, token) THEN NoError
  ELSE LET target == bs[1].target IN
       IF ~reflect[target].injectable THEN "MissingInjectable"
       ELSE IF Len(reflect[target].inject) < Arity(target) THEN "MissingInject"
       ELSE planErrorAll(c, reflect[target].inject)

planErrorAll(c, tokens) ==
  IF tokens = <<>> THEN NoError
  ELSE LET e == planError(c, Head(tokens)) IN
       IF e # NoError THEN e ELSE planErrorAll(c, Tail(tokens))

\* inversify resolution: the dependencies of an instance are resolved in
\* parameter order, then the class is constructed with them.
\* st = [cache, instances, routes, error, inst, args]
RECURSIVE resolveRequest(_, _)
RECURSIVE resolveAll(_, _)
resolveRequest(st, token) ==
  IF IsCached(st.cache, token)
  THEN [st EXCEPT !.inst = CachedInstance(st.cache, token)]
  ELSE LET target == BindingsFor(token)[1].target
           deps == resolveAll(st, reflect[target].inject)
           init == runInitializers(deps.routes, target, program.methods[target])
           inst == Len(deps.instances) + 1
       IN  IF deps.error # NoError THEN deps
           ELSE IF init.error # NoError
           THEN [deps EXCEPT !.routes = init.routes, !.error = init.error]
           ELSE [cache |-> inSingletonScope(deps.cache, token, inst),
                 instances |-> Append(deps.instances,
                                      [class |-> target, token |-> token,
                                       args |-> deps.args]),
                 routes |-> init.routes,
                 error |-> NoError,
                 message |-> NoMessage,
                 inst |-> inst,
                 args |-> <<>>]

resolveAll(st, tokens) ==
  IF tokens = <<>> THEN [st EXCEPT !.args = <<>>]
  ELSE LET first == resolveRequest(st, Head(tokens)) IN
       IF first.error # NoError THEN first
       ELSE LET rest == resolveAll(first, Tail(tokens)) IN
            IF rest.error # NoError THEN rest
            ELSE [rest EXCEPT !.args = <<first.inst>> \o @]

\* the part of the state a this.#container.get(key) call works on
ContainerState ==
  [cache |-> cache, instances |-> instances, routes |-> routes,
   error |-> NoError, message |-> NoMessage, inst |-> 0, args |-> <<>>]

\* this.#container.get(key), from container state st
containerGet(st, token) ==
  LET e == planError(st.cache, token)
      start == [st EXCEPT !.error = NoError, !.inst = 0, !.args = <<>>]
  IN  IF e # NoError THEN [start EXCEPT !.error = e]
      ELSE resolveRequest(start, token)

\* the state left by a this.#container.get(key) call
ApplyGet(r) ==
  /\ cache' = r.cache
  /\ instances' = r.instances
  /\ routes' = r.routes

\* the methods of a class that are functions
IsFunction(target, methodName) ==
  \/ \E i \in 1..Len(program.methods[target]) :
        program.methods[target][i].methodName = methodName
  \/ methodName = "register" /\ program.hasRegister[target]

\* Container.build, the head of a loop iteration up to its await: the
\* register() of the next injectable is invoked, or the loop ends.  before
\* keeps the bindings the container held when build() was called
buildIteration(queue, builds, before) ==
  IF queue = <<>>
  THEN [pc |-> "built", queue |-> <<>>, error |-> NoError, message |-> NoMessage,
        position |-> -1, builds |-> builds, before |-> before]
  ELSE LET d == getRegistrationDefinition(Head(queue).target) IN
       [pc |-> IF d.ok THEN "awaiting" ELSE "failed", queue |-> queue,
        error |-> d.error, message |-> d.message, position |-> -1,
        builds |-> builds, before |-> before]

\* Container.build(ctx) is called: the registrations are listed once and the
\* first iteration runs up to its await
ContainerBuild ==
  /\ build.pc # "awaiting"
  /\ build.builds < MaxBuilds
  /\ build' = buildIteration(getClassRegistrations("Injectable"), build.builds + 1,
                             bindings)
  /\ call' = [op |-> "build"]
  /\ UNCHANGED <<program, registryVars, routerVars, decorVars,
                 bindings, cache, instances, appVars>>

\* a build that constructs each class as it binds it (a plausible slip)
BuildResumeEager ==
  /\ build.pc = "awaiting"
  /\ LET head == Head(build.queue)
         pk == paramKeys(SymbolDescription(head.key),
                         program.dependencies[head.target], 0)
         rs == registerSingleton(head.key, head.target, pk.keys)
     IN  IF ~pk.ok \/ rs.error # NoError
         THEN /\ build' = [build EXCEPT !.pc = "failed",
                                        !.error = IF pk.ok THEN rs.error ELSE pk.error,
                                        !.message = pk.message,
                                        !.position = pk.position]
              /\ UNCHANGED <<decorVars, bindings, cache, instances>>
         ELSE /\ containerMetadata' = rs.containerMetadata
              /\ reflect' = rs.reflect
              /\ bindings' = rs.bindings
              /\ instances' = Append(instances, [class |-> head.target,
                                                 token |-> head.key, args |-> <<>>])
              /\ cache' = inSingletonScope(cache, head.key, Len(instances) + 1)
              /\ build' = buildIteration(Tail(build.queue), build.builds,
                                         build.before)
  /\ call' = [op |-> "build"]
  /\ UNCHANGED <<program, registryVars, routerVars, appVars>>

\* Container.build resumes after the await: the dependency keys are looked
\* up, the class is bound, and the next iteration runs up to its await
BuildResume ==
  /\ build.pc = "awaiting"
  /\ LET head == Head(build.queue)
         pk == paramKeys(SymbolDescription(head.key),
                         program.dependencies[head.target], 0)
         rs == registerSingleton(head.key, head.target, pk.keys)
     IN  IF ~pk.ok \/ rs.error # NoError
         THEN /\ build' = [build EXCEPT !.pc = "failed",
                                        !.error = IF pk.ok THEN rs.error ELSE pk.error,
                                        !.message = pk.message,
                                        !.position = pk.position]
              /\ UNCHANGED <<decorVars, bindings>>
         ELSE /\ containerMetadata' = rs.containerMetadata
              /\ reflect' = rs.reflect
              /\ bindings' = rs.bindings
              /\ build' = buildIteration(Tail(build.queue), build.builds,
                                         build.before)
  /\ call' = [op |-> "build"]
  /\ UNCHANGED <<program, registryVars, routerVars, cache, instances, appVars>>

\* Container.setupClass(target), from container state st
setupClass(st, target) ==
  LET key == getRegistrationKey(target) IN
  IF ~key.ok THEN [st EXCEPT !.error = key.error]
  ELSE containerGet(st, key.key)

\* Container.getClassMethod(targetKey, methodName), from container state st:
\* the instance whose method is bound is left in .inst
getClassMethod(st, targetKey, methodName) ==
  LET r == containerGet(st, targetKey) IN
  IF r.error # NoError THEN r
  ELSE IF ~IsFunction(r.instances[r.inst].class, methodName)
  THEN [r EXCEPT !.error = "AssertionError"]
  ELSE r

\* a Container.setupClass(target) call; the call record keeps how many
\* instances the call constructed and how many route entries their
\* initializers added
SetupClass(target) ==
  LET r == setupClass(ContainerState, target) IN
      /\ ApplyGet(r)
      /\ call' = [op |-> "setupClass", error |-> r.error,
                  constructed |-> Len(r.instances) - Len(instances),
                  registered |-> Len(r.routes) - Len(routes)]
      /\ UNCHANGED <<program, registryVars, controllers, decorVars,
                     bindings, build, appVars>>

\* a Container.getClassMethod(targetKey, methodName) call
GetClassMethod(targetKey, methodName) ==
  LET r == getClassMethod(ContainerState, targetKey, methodName) IN
  /\ ApplyGet(r)
  /\ call' = [op |-> "getClassMethod", error |-> r.error]
  /\ UNCHANGED <<program, registryVars, controllers, decorVars,
                 bindings, build, appVars>>

\* ------------------------------------------------------------------------
\* Router
\* ------------------------------------------------------------------------

\* A path string is kept as the sequence of the segments its slashes
\* delimit, each segment written after one slash: <<"v1", "items">> is
\* "/v1/items", an empty segment "" stands for a doubled, leading or
\* trailing slash, and a given path "/items/" is <<"", "items", "">>.

\* join("/", ...pathParts) of @std/path: the parts are joined and the result
\* is normalised; empty and "." segments vanish and ".." removes the segment
\* before it (at the root it is dropped)
RECURSIVE normalize(_, _)
normalize(acc, segments) ==
  IF segments = <<>> THEN acc
  ELSE LET seg == Head(segments) IN
       IF seg = "" \/ seg = "." THEN normalize(acc, Tail(segments))
       ELSE IF seg = ".."
       THEN normalize(IF acc = <<>> THEN <<>> ELSE SubSeq(acc, 1, Len(acc) - 1),
                      Tail(segments))
       ELSE normalize(Append(acc, seg), Tail(segments))

\* a segment that is one backslash; join() takes it for a name
Backslash == "\\"

\* .replaceAll("\\", "/"): a segment is cut at every backslash it holds
RECURSIVE replaceAll(_)
replaceAll(segments) ==
  IF segments = <<>> THEN <<>>
  ELSE (IF Head(segments) = Backslash THEN <<"", "">> ELSE <<Head(segments)>>)
         \o replaceAll(Tail(segments))

\* .replace(/\/+$/, ""): the trailing slashes are removed
RECURSIVE trimTrailing(_)
trimTrailing(segments) ==
  IF segments # <<>> /\ Last(segments) = ""
  THEN trimTrailing(SubSeq(segments, 1, Len(segments) - 1))
  ELSE segments

\* .replace(/^\/+/, "/"): the leading slashes become one
RECURSIVE trimLeading(_)
trimLeading(segments) ==
  IF Len(segments) > 1 /\ Head(segments) = ""
  THEN trimLeading(Tail(segments))
  ELSE segments

\* buildRoutePath(version, controller.path, route.path)
buildRoutePath(version, controllerPath, routePath) ==
  trimLeading(trimTrailing(replaceAll(
    normalize(<<>>, <<version>> \o controllerPath \o routePath))))

\* a getControllerMetadataByRoute that mounts such a route at the root (a
\* plausible slip)
getControllerMetadataByRouteOrRoot(route) ==
  [ok |-> TRUE, error |-> NoError, message |-> NoMessage,
   path |-> IF ControllersHas(route.controller)
            THEN ControllersGet(route.controller).path ELSE <<>>]

\* getControllerMetadataByRoute(route)
getControllerMetadataByRoute(route) ==
  IF ControllersHas(route.controller)
  THEN [ok |-> TRUE, error |-> NoError, message |-> NoMessage,
        path |-> ControllersGet(route.controller).path]
  ELSE [ok |-> FALSE, error |-> "RouterError",
        message |-> <<"Controller ", "Symbol(", SymbolDescription(route.controller),
                      ")", " does not exist for route: ", route.method, " ">>
                      \o route.path,
        path |-> <<>>]

\* a buildRouteHandler that takes a registered class of any kind for the
\* body (a plausible slip)
buildRouteHandlerAnyType(route, inst) ==
  LET registeredClass == getClassRegistrationByKey(route.body)
      handler == [route |-> route.key, inst |-> inst,
                  methodName |-> route.methodName, bodyClass |-> NoClass]
  IN  IF route.body = NoKey
      THEN [ok |-> TRUE, error |-> NoError, handler |-> handler]
      ELSE IF ~registeredClass.ok
      THEN [ok |-> FALSE, error |-> registeredClass.error, handler |-> handler]
      ELSE [ok |-> TRUE, error |-> NoError,
            handler |-> [handler EXCEPT !.bodyClass = registeredClass.target]]

\* buildRouteHandler(route, methodHandler): the closure keeps the bound
\* method (instance and method name) and the body class
buildRouteHandler(route, inst) ==
  LET registeredClass == getClassRegistrationByKey(route.body)
      handler == [route |-> route.key, inst |-> inst,
                  methodName |-> route.methodName, bodyClass |-> NoClass]
  IN  IF route.body = NoKey
      THEN [ok |-> TRUE, error |-> NoError, handler |-> handler]
      ELSE IF ~registeredClass.ok
      THEN [ok |-> FALSE, error |-> registeredClass.error, handler |-> handler]
      ELSE IF registeredClass.type # "InputType"
      THEN [ok |-> FALSE, error |-> "RouterError", handler |-> handler]
      ELSE [ok |-> TRUE, error |-> NoError,
            handler |-> [handler EXCEPT !.bodyClass = registeredClass.target]]

\* buildControllerRoutes, the loop over the filtered routes.
\* acc = [st, controllerRoutes], st the container state (with its error)
RECURSIVE buildRoutes(_, _, _)
buildRoutes(acc, version, filteredRoutes) ==
  IF filteredRoutes = <<>> \/ acc.st.error # NoError THEN acc
  ELSE LET route == Head(filteredRoutes)
           m == getClassMethod(acc.st, route.controller, route.methodName)
           controller == getControllerMetadataByRoute(route)
           handler == buildRouteHandler(route, m.inst)
       IN  IF m.error # NoError THEN [acc EXCEPT !.st = m]
           ELSE IF ~controller.ok
           THEN [acc EXCEPT !.st = [m EXCEPT !.error = controller.error,
                                             !.message = controller.message]]
           ELSE IF ~handler.ok
           THEN [acc EXCEPT !.st = [m EXCEPT !.error = handler.error]]
           ELSE buildRoutes(
                  [st |-> m,
                   controllerRoutes |->
                     Append(acc.controllerRoutes,
                            [method |-> route.method,
                             path |-> buildRoutePath(version, controller.path,
                                                     route.path),
                             handler |-> handler.handler])],
                  version, Tail(filteredRoutes))

\* buildControllerRoutes(container, version, controller)
buildControllerRoutes(st, version, controller) ==
  LET controllerKey == getRegistrationKey(controller) IN
  IF ~controllerKey.ok
  THEN [st |-> [st EXCEPT !.error = controllerKey.error], controllerRoutes |-> <<>>]
  ELSE buildRoutes([st |-> st, controllerRoutes |-> <<>>], version,
                   SelectSeq(st.routes, LAMBDA r : r.controller = controllerKey.key))

\* a buildControllerRoutes(container, version, controller) call; the call
\* record keeps the route keys of the ControllerRoutes it returned
BuildControllerRoutes(version, controller) ==
  \E b \in {buildControllerRoutes(ContainerState, version, controller)} :
      /\ ApplyGet(b.st)
      /\ call' = [op |-> "buildControllerRoutes", controller |-> controller,
                  error |-> b.st.error,
                  returned |-> IF b.st.error # NoError THEN <<>>
                               ELSE [i \in 1..Len(b.controllerRoutes) |->
                                       b.controllerRoutes[i].handler.route]]
      /\ UNCHANGED <<program, registryVars, controllers, decorVars,
                     bindings, build, appVars>>

\* ------------------------------------------------------------------------
\* Core driver adapter
\* ------------------------------------------------------------------------

\* this.#routes.get(path)
DriverPathIndex(dr, path) ==
  IF \E i \in 1..Len(dr) : dr[i].path = path
  THEN CHOOSE i \in 1..Len(dr) : dr[i].path = path
  ELSE 0

\* methods.get(method)
MethodsHas(methods, method) == \E m \in methods : m.method = method

MethodsGet(methods, method) == CHOOSE m \in methods : m.method = method

\* a registerRoute that lets the last registration win (a plausible slip)
driverRegisterRouteReplace(dr, route) ==
  LET i == DriverPathIndex(dr, route.path) IN
  [ok |-> TRUE,
   routes |-> IF i # 0
              THEN [dr EXCEPT ![i].methods =
                      {m \in @ : m.method # route.method}
                        \cup {[method |-> route.method, handler |-> route.handler]}]
              ELSE Append(dr, [path |-> route.path,
                               methods |-> {[method |-> route.method,
                                             handler |-> route.handler]}])]

\* CoreDriverAdapter.registerRoute(route)
driverRegisterRoute(dr, route) ==
  LET i == DriverPathIndex(dr, route.path) IN
  IF i # 0
  THEN IF MethodsHas(dr[i].methods, route.method)
       THEN [ok |-> FALSE, routes |-> dr]
       ELSE [ok |-> TRUE,
             routes |-> [dr EXCEPT ![i].methods =
                           @ \cup {[method |-> route.method,
                                    handler |-> route.handler]}]]
  ELSE [ok |-> TRUE,
        routes |-> Append(dr, [path |-> route.path,
                               methods |-> {[method |-> route.method,
                                             handler |-> route.handler]}])]

\* a URL pattern segment ":name" matches any one segment and names a group
IsGroup(seg) == seg \in {":id", ":name"}

\* new URLPattern({ pathname }).exec(request.url)
PatternMatches(pathname, path) ==
  /\ Len(pathname) = Len(path)
  /\ \A i \in 1..Len(path) : IsGroup(pathname[i]) \/ pathname[i] = path[i]

\* match.pathname.groups, as the <<name, value>> pairs in path order
RECURSIVE PatternGroups(_, _)
PatternGroups(pathname, path) ==
  IF pathname = <<>> THEN <<>>
  ELSE (IF IsGroup(Head(pathname)) THEN <<<<Head(pathname), Head(path)>>>> ELSE <<>>)
         \o PatternGroups(Tail(pathname), Tail(path))

\* a scan that prefers the last matching path (a plausible slip)
RECURSIVE lastMatch(_, _, _)
lastMatch(dr, path, i) ==
  IF i > Len(dr) THEN 0
  ELSE LET later == lastMatch(dr, path, i + 1) IN
       IF later # 0 THEN later
       ELSE IF PatternMatches(dr[i].path, path) THEN i ELSE 0

\* CoreDriverAdapter.#handler, the loop: the index of the first registered
\* path that matches the request path (0 when none does)
RECURSIVE firstMatch(_, _, _)
firstMatch(dr, path, i) ==
  IF i > Len(dr) THEN 0
  ELSE IF PatternMatches(dr[i].path, path) THEN i
  ELSE firstMatch(dr, path, i + 1)

\* ------------------------------------------------------------------------
\* Responses
\* ------------------------------------------------------------------------
\* A string is kept as the sequence of its pieces: <<>> is the empty string
\* and \o is concatenation.

\* STATUS_TEXT of @std/http/status, for the status codes of the model
STATUS_TEXT ==
  [n \in {100, 200, 204, 304, 400, 404, 500} |->
     CASE n = 100 -> <<"Continue">>
       [] n = 200 -> <<"OK">>
       [] n = 204 -> <<"No Content">>
       [] n = 304 -> <<"Not Modified">>
       [] n = 400 -> <<"Bad Request">>
       [] n = 404 -> <<"Not Found">>
       [] n = 500 -> <<"Internal Server Error">>]

RECURSIVE JoinSegments(_)
JoinSegments(path) ==
  IF path = <<>> THEN <<>> ELSE <<"/", Head(path)>> \o JoinSegments(Tail(path))

\* new URL(request.url).pathname
PathText(path) == IF path = <<>> THEN <<"/">> ELSE JoinSegments(path)

\* String(error)
String(error) ==
  CASE error.kind = "string" -> error.message
    [] error.kind = "Error" ->
         IF error.message = <<>> THEN <<error.name>>
         ELSE <<error.name, ": ">> \o error.message
    [] error.kind = "object" -> <<"[object Object]">>
    [] OTHER -> <<"undefined">>

\* a value String() cannot convert (an object without toString) makes
\* buildErrorResponse itself throw
StringThrows(error) == error.kind = "opaque"

\* getErrorStatusCode(error)
getErrorStatusCode(error) ==
  IF error.kind \in {"Error", "object", "opaque"}
     /\ error.statusCode.has /\ error.statusCode.number
     /\ error.statusCode.n \in DOMAIN STATUS_TEXT
  THEN error.statusCode.n
  ELSE 500

\* the detail of buildErrorResponse:
\* (error instanceof Error ? error.message : undefined) || String(error)
errorDetail(error) ==
  IF error.kind = "Error" /\ error.message # <<>> THEN error.message
  ELSE String(error)

\* buildErrorResponse(ctx, error): [body, init]
buildErrorResponse(error) ==
  LET status == getErrorStatusCode(error) IN
  [body |-> [status |-> status,
             title |-> IF status \in DOMAIN STATUS_TEXT THEN STATUS_TEXT[status]
                       ELSE <<"undefined">>,
             detail |-> errorDetail(error)],
   contentType |-> "application/problem+json",
   status |-> status]

\* a JSON string literal
Quote(text) == <<"\"">> \o text \o <<"\"">>

\* the members of a JSON object: props is the sequence of the own enumerable
\* properties, each [key, value] with value already in JSON
RECURSIVE JsonMembers(_)
JsonMembers(props) ==
  IF props = <<>> THEN <<>>
  ELSE <<"\"", Head(props).key, "\":">> \o Head(props).value
         \o (IF Len(props) > 1 THEN <<",">> ELSE <<>>)
         \o JsonMembers(Tail(props))

\* JSON.stringify(body) of an object or null
JSONStringify(body) ==
  IF body.t = "null" THEN <<"null">>
  ELSE <<"{">> \o JsonMembers(body.props) \o <<"}">>

\* an ErrorResponse as the object it is
ProblemObject(body) ==
  [t |-> "object",
   props |-> <<[key |-> "status", value |-> <<ToString(body.status)>>],
               [key |-> "title", value |-> Quote(body.title)],
               [key |-> "detail", value |-> Quote(body.detail)]>>]

\* eTag(bodyInit) of @std/http/etag: a hash of the whole text
eTag(text) == <<"etag of ">> \o text

\* serialiseResponseBody(ctx, body): what becomes of each kind of value
\*   string           the string itself
\*   object, null     JSON.stringify(body), which throws on a value it cannot
\*                    serialise (a cycle, a BigInt)
\*   anything else    undefined
serialiseResponseBody(body) ==
  CASE body.t = "string" -> [has |-> TRUE, throws |-> FALSE, text |-> body.text]
    [] body.t \in {"object", "null"} ->
         [has |-> TRUE, throws |-> FALSE, text |-> JSONStringify(body)]
    [] body.t = "unserialisable" -> [has |-> FALSE, throws |-> TRUE, text |-> <<>>]
    [] OTHER -> [has |-> FALSE, throws |-> FALSE, text |-> <<>>]

\* new Response(bodyInit, init) throws for a status outside 200..599 (other
\* than 101) and for a body given with a null-body status
ResponseThrows(status, hasBody) ==
  \/ (status < 200 \/ status > 599) /\ status # 101
  \/ hasBody /\ status \in {101, 204, 205, 304}

NoValue == [t |-> "none"]

NoResponse ==
  [settled |-> "none", passthrough |-> NoValue, status |-> 0, contentType |-> "",
   hasEtag |-> FALSE, etag |-> <<>>, hasBody |-> FALSE, text |-> <<>>]

\* processResponse(ctx, body, init): init is [contentType, status], with
\* status 0 and contentType "" when no init is given
processResponse(body, init) ==
  LET bodyInit == serialiseResponseBody(body)
      status == IF init.status = 0 THEN 200 ELSE init.status
  IN  IF body.t = "Response"
      THEN [NoResponse EXCEPT !.settled = "resolved", !.passthrough = body]
      ELSE IF bodyInit.throws \/ ResponseThrows(status, bodyInit.has)
      THEN [NoResponse EXCEPT !.settled = "rejected"]
      ELSE [settled |-> "resolved", passthrough |-> NoValue, status |-> status,
            contentType |-> init.contentType,
            hasEtag |-> bodyInit.has,
            etag |-> IF bodyInit.has THEN eTag(bodyInit.text) ELSE <<>>,
            hasBody |-> bodyInit.has, text |-> bodyInit.text]

NoInit == [contentType |-> "", status |-> 0]

\* processResponse(ctx, ...buildErrorResponse(ctx, error))
problemResponse(error) ==
  LET e == buildErrorResponse(error) IN
  processResponse(ProblemObject(e.body),
                  [contentType |-> e.contentType, status |-> e.status])

\* new Container(): an empty container replaces the one in use, once that one
\* has been through a build; build.builds counts the builds of the process
NewContainer ==
  /\ build.pc \in {"built", "failed"}
  /\ build.builds < MaxBuilds
  /\ bindings' = <<>>
  /\ cache' = {}
  /\ instances' = <<>>
  /\ build' = [pc |-> "idle", queue |-> <<>>, error |-> NoError,
               message |-> NoMessage, position |-> -1, builds |-> build.builds,
               before |-> <<>>]
  /\ call' = [op |-> "newContainer"]
  /\ UNCHANGED <<program, registryVars, routerVars, decorVars, appVars>>

\* the class definition of an injectable is evaluated (its decorator runs
\* once)
DefineClass(target) ==
  /\ typeKey[target] = NoKey
  /\ symbols < MaxSymbols
  /\ DefineInjectable(target)
  /\ call' = [op |-> "defineClass"]
  /\ UNCHANGED <<program, cleared, routes, decorVars, containerVars, appVars>>

\* ------------------------------------------------------------------------
\* Request handling
\* ------------------------------------------------------------------------
NoStatusCode == [has |-> FALSE, number |-> FALSE, n |-> 0]

NoExchange ==
  [req |-> [method |-> "", path |-> <<>>, body |-> [t |-> "empty", data |-> ""]]]

\* new NotFoundError(message)
NotFoundError(message) ==
  [kind |-> "Error", name |-> "NotFoundError", message |-> message,
   statusCode |-> [has |-> TRUE, number |-> TRUE, n |-> 404]]

\* the SyntaxError of JSON.parse
SyntaxError ==
  [kind |-> "Error", name |-> "SyntaxError", message |-> <<"Unexpected token">>,
   statusCode |-> NoStatusCode]

NoBody == [t |-> "undefined", class |-> NoClass, data |-> ""]

\* a deserialiseRequestBody that reads the body whatever the route declares
\* (a plausible slip)
deserialiseRequestBodyAlways(target, request) ==
  IF request.body.t = "empty" THEN [throws |-> FALSE, body |-> NoBody]
  ELSE IF request.body.t = "invalid" THEN [throws |-> TRUE, body |-> NoBody]
  ELSE [throws |-> FALSE,
        body |-> [t |-> "instance", class |-> target, data |-> request.body.data]]

\* deserialiseRequestBody(target, request)
deserialiseRequestBody(target, request) ==
  IF target = NoClass THEN [throws |-> FALSE, body |-> NoBody]
  ELSE IF request.body.t = "empty" THEN [throws |-> FALSE, body |-> NoBody]
  ELSE IF request.body.t = "invalid" THEN [throws |-> TRUE, body |-> NoBody]
  ELSE [throws |-> FALSE,
        body |-> [t |-> "instance", class |-> target, data |-> request.body.data]]

NoProblem == [status |-> 0, title |-> <<>>, detail |-> <<>>]

NoOutcome == [how |-> "none"]

NoArgs == [request |-> NoExchange.req, params |-> <<>>, body |-> NoBody]

\* the response to an error caught by runHandler: buildErrorResponse may
\* itself throw, inside the catch block
caughtResponse(error) ==
  IF StringThrows(error) THEN [NoResponse EXCEPT !.settled = "rejected"]
  ELSE problemResponse(error)

caughtProblem(error) ==
  IF StringThrows(error) THEN NoProblem ELSE buildErrorResponse(error).body

\* a runHandler that reads the body before its try block, so that a body
\* that does not parse rejects the handler (a plausible slip)
runHandlerParsingFirst(handler, request, params, outcome) ==
  LET d == deserialiseRequestBody(handler.bodyClass, request)
      base == [req |-> request, route |-> handler.route, inst |-> handler.inst,
               methodName |-> handler.methodName]
  IN  IF d.throws
      THEN base @@ [invoked |-> FALSE, args |-> NoArgs, outcome |-> NoOutcome,
                    caught |-> FALSE,
                    problem |-> NoProblem,
                    res |-> [NoResponse EXCEPT !.settled = "rejected"]]
      ELSE IF outcome.how = "return"
      THEN base @@ [invoked |-> TRUE,
                    args |-> [request |-> request, params |-> params, body |-> d.body],
                    outcome |-> outcome,
                    caught |-> FALSE,
                    problem |-> NoProblem,
                    res |-> processResponse(outcome.value, NoInit)]
      ELSE base @@ [invoked |-> TRUE,
                    args |-> [request |-> request, params |-> params, body |-> d.body],
                    outcome |-> outcome,
                    caught |-> TRUE,
                    problem |-> caughtProblem(outcome.error),
                    res |-> caughtResponse(outcome.error)]

\* runHandler(ctx, params) of a built route handler; outcome is what the
\* controller method does when it is invoked: it returns (or resolves to) a
\* value, or it throws (or rejects with) a value.  The record tells what
\* happened: whether the method was invoked and with which arguments, what
\* it did, the ErrorResponse built if any, and how the promise settled
runHandler(handler, request, params, outcome) ==
  LET d == deserialiseRequestBody(handler.bodyClass, request)
      base == [req |-> request, route |-> handler.route, inst |-> handler.inst,
               methodName |-> handler.methodName]
  IN  IF d.throws
      THEN base @@ [invoked |-> FALSE, args |-> NoArgs, outcome |-> NoOutcome,
                    caught |-> TRUE,
                    problem |-> caughtProblem(SyntaxError),
                    res |-> caughtResponse(SyntaxError)]
      ELSE IF outcome.how = "return"
      THEN base @@ [invoked |-> TRUE,
                    args |-> [request |-> request, params |-> params, body |-> d.body],
                    outcome |-> outcome,
                    caught |-> FALSE,
                    problem |-> NoProblem,
                    res |-> processResponse(outcome.value, NoInit)]
      ELSE base @@ [invoked |-> TRUE,
                    args |-> [request |-> request, params |-> params, body |-> d.body],
                    outcome |-> outcome,
                    caught |-> TRUE,
                    problem |-> caughtProblem(outcome.error),
                    res |-> caughtResponse(outcome.error)]

\* CoreDriverAdapter.#notFoundResponse(ctx)
notFoundResponse(request, outcome) ==
  LET error == NotFoundError(<<"Route ", request.method, " ">>
                               \o PathText(request.path) \o <<" not found">>)
  IN  [req |-> request, route |-> "none", inst |-> 0, methodName |-> "",
       invoked |-> FALSE, args |-> NoArgs, outcome |-> NoOutcome, caught |-> FALSE,
       problem |-> buildErrorResponse(error).body,
       res |-> problemResponse(error)]

\* a handler that goes on to the next matching path when the first one has
\* no handler for the method (a plausible slip)
driverHandlerFallThrough(request, outcome) ==
  LET S == {k \in 1..Len(driverRoutes) :
              /\ PatternMatches(driverRoutes[k].path, request.path)
              /\ MethodsHas(driverRoutes[k].methods, request.method)}
  IN  IF S = {} THEN notFoundResponse(request, outcome)
      ELSE LET i == CHOOSE k \in S : \A j \in S : k <= j IN
           runHandler(MethodsGet(driverRoutes[i].methods, request.method).handler,
                      request, PatternGroups(driverRoutes[i].path, request.path),
                      outcome)

\* CoreDriverAdapter.#handler(request, info)
driverHandler(request, outcome) ==
  LET i == firstMatch(driverRoutes, request.path, 1) IN
  IF i = 0 THEN notFoundResponse(request, outcome)
  ELSE IF ~MethodsHas(driverRoutes[i].methods, request.method)
  THEN notFoundResponse(request, outcome)
  ELSE runHandler(MethodsGet(driverRoutes[i].methods, request.method).handler,
                  request, PatternGroups(driverRoutes[i].path, request.path),
                  outcome)

\* a request arrives at a running server and is answered
Request(request, outcome) ==
  /\ servers > 0
  /\ exchange' = driverHandler(request, outcome)
  /\ call' = [op |-> "request"]
  /\ UNCHANGED <<program, registryVars, routerVars, decorVars, containerVars,
                 application, versions, driverRoutes, listen, servers, inflight>>

\* ------------------------------------------------------------------------
\* Requests in flight
\* ------------------------------------------------------------------------
\* runHandler is an async function: it pauses at `await
\* deserialiseRequestBody(...)` and at `await methodHandler(...)`, and other
\* requests are accepted and resumed in between.  A request in flight is
\* the record of what its #handler call and its runHandler call hold: the
\* request that arrived, the Context made for it, the route handler and the
\* groups of the matched pattern, where the call is (pc), and its exchange
\* so far

\* the number of requests the server takes
MaxInflight == 2

\* new Context(this.#ctx, request): a new object per call, here numbered
Context(id, request) == [id |-> id, request |-> request]

NoHandler == [route |-> "none", inst |-> 0, methodName |-> "", bodyClass |-> NoClass]

\* the exchange of a request whose route handler has been called and has
\* not invoked the controller method yet
pendingExchange(handler, request) ==
  [req |-> request, route |-> handler.route, inst |-> handler.inst,
   methodName |-> handler.methodName, invoked |-> FALSE, args |-> NoArgs,
   outcome |-> NoOutcome, caught |-> FALSE, problem |-> NoProblem,
   res |-> NoResponse]

\* CoreDriverAdapter.#handler(request, info), up to the first await of the
\* route handler it calls; context is the Context the controller method was
\* given (0 before it is invoked)
accept(id, request) ==
  LET i == firstMatch(driverRoutes, request.path, 1)
      ctx == Context(id, request)
  IN  IF i = 0 \/ ~MethodsHas(driverRoutes[i].methods, request.method)
      THEN [request |-> request, ctx |-> ctx, handler |-> NoHandler,
            params |-> <<>>, pc |-> "done", context |-> 0,
            exchange |-> notFoundResponse(request, NoOutcome)]
      ELSE LET handler == MethodsGet(driverRoutes[i].methods, request.method).handler
           IN  [request |-> request, ctx |-> ctx, handler |-> handler,
                params |-> PatternGroups(driverRoutes[i].path, request.path),
                pc |-> "deserialising", context |-> 0,
                exchange |-> pendingExchange(handler, request)]

\* a handler that takes the Context from a field of the adapter, which
\* holds the Context of the request that arrived last (a plausible slip)
handlerContextOfAdapter(k) == Last(inflight).ctx

\* the ctx a paused runHandler call holds: its own parameter
handlerContext(k) == inflight[k].ctx

\* a request arrives at a running server
Accept(request) ==
  /\ servers > 0
  /\ Len(inflight) < MaxInflight
  /\ inflight' = Append(inflight, accept(Len(inflight) + 1, request))
  /\ call' = [op |-> "accept", id |-> Len(inflight) + 1]
  /\ UNCHANGED <<program, registryVars, routerVars, decorVars, containerVars,
                 application, versions, driverRoutes, listen, servers, exchange>>

\* runHandler resumes with the body of the request: a body that cannot be
\* parsed is caught and answered, otherwise the controller method is
\* invoked with (ctx, params, body) and runHandler pauses again
Deserialised(k) ==
  /\ k \in 1..Len(inflight)
  /\ inflight[k].pc = "deserialising"
  /\ LET r == inflight[k]
         ctx == handlerContext(k)
         d == deserialiseRequestBody(r.handler.bodyClass, ctx.request)
     IN  inflight' =
           [inflight EXCEPT ![k] =
              IF d.throws
              THEN [r EXCEPT !.pc = "done",
                             !.exchange = runHandler(r.handler, ctx.request,
                                                     r.params, NoOutcome)]
              ELSE [r EXCEPT !.pc = "invoked",
                             !.context = ctx.id,
                             !.exchange.invoked = TRUE,
                             !.exchange.args = [request |-> ctx.request,
                                                params |-> r.params,
                                                body |-> d.body]]]
  /\ call' = [op |-> "deserialised", id |-> k]
  /\ UNCHANGED <<program, registryVars, routerVars, decorVars, containerVars,
                 application, versions, driverRoutes, listen, servers, exchange>>

\* the controller method returns, or throws: runHandler resumes, builds the
\* response and the request is answered
Settled(k, outcome) ==
  /\ k \in 1..Len(inflight)
  /\ inflight[k].pc = "invoked"
  /\ LET r == inflight[k]
         done == runHandler(r.handler, r.exchange.args.request, r.params, outcome)
     IN  inflight' = [inflight EXCEPT ![k] =
                        [r EXCEPT !.pc = "done", !.exchange = done]]
  /\ call' = [op |-> "settled", id |-> k]
  /\ UNCHANGED <<program, registryVars, routerVars, decorVars, containerVars,
                 application, versions, driverRoutes, listen, servers, exchange>>

\* ------------------------------------------------------------------------
\* Application
\* ------------------------------------------------------------------------

\* DriverStrategy
DriverStrategy == {"Core"}

\* new CoreDriverAdapter(ctx)
CoreDriverAdapter == [t |-> "object", class |-> "CoreDriverAdapter"]

\* no Application object: the constructor has not run, or it has thrown
NoApplication ==
  [pc |-> "none", driver |-> [t |-> "undefined"], error |-> NoError,
   message |-> NoMessage]

\* an assertNever that wraps the text of the error in an AssertionError (a
\* plausible slip)
assertNeverAssertion(input, error) ==
  [error |-> "AssertionError", message |-> <<error.error, ": ">> \o error.message]

\* assertNever(_input, error): throws the error it is given
assertNever(input, error) == error

\* Application.#setupDriver(driver)
setupDriver(driver) ==
  IF driver.t = "object" THEN [ok |-> TRUE, driver |-> driver]
  ELSE IF driver.t = "string" /\ driver.value = "Core"
  THEN [ok |-> TRUE, driver |-> CoreDriverAdapter]
  ELSE [ok |-> FALSE, driver |-> driver,
        thrown |-> assertNever(driver,
                               [error |-> "ApplicationError",
                                message |-> <<"Unsupported driver: ", driver.value>>])]

\* new Application(options): the driver option, or DriverStrategy.Core when
\* it is absent, is set up last; nothing is constructed when it throws
Construct(options) ==
  /\ application.pc = "none"
  /\ LET driver == IF options.driver.t = "undefined"
                   THEN [t |-> "string", value |-> "Core"]
                   ELSE options.driver
         r == setupDriver(driver)
     IN  application' =
           IF r.ok
           THEN [pc |-> "constructed", driver |-> r.driver, error |-> NoError,
                 message |-> NoMessage]
           ELSE [pc |-> "failed", driver |-> [t |-> "undefined"],
                 error |-> r.thrown.error, message |-> r.thrown.message]
  /\ call' = [op |-> "new Application", options |-> options]
  /\ UNCHANGED <<program, registryVars, routerVars, decorVars, containerVars,
                 versions, driverRoutes, listen, servers, exchange, inflight>>

\* another Application is constructed, with the default options: it has a
\* Container and a driver of its own and no versions.  The model follows
\* the application constructed last; the servers started before keep running
NewApplication ==
  /\ application.pc = "constructed"
  /\ listen.pc # "building"
  /\ build.pc # "awaiting"
  /\ build.builds < MaxBuilds
  /\ application' = [pc |-> "constructed", driver |-> CoreDriverAdapter,
                     error |-> NoError, message |-> NoMessage]
  /\ bindings' = <<>>
  /\ cache' = {}
  /\ instances' = <<>>
  /\ build' = [pc |-> "idle", queue |-> <<>>, error |-> NoError,
               message |-> NoMessage, position |-> -1, builds |-> build.builds,
               before |-> <<>>]
  /\ versions' = <<>>
  /\ driverRoutes' = <<>>
  /\ listen' = [pc |-> "idle", error |-> NoError, before |-> <<>>,
                attempts |-> <<>>, servers |-> servers, steps |-> <<>>,
                message |-> NoMessage, served |-> [ok |-> FALSE, versions |-> <<>>]]
  /\ call' = [op |-> "new Application", options |-> [driver |-> [t |-> "undefined"]]]
  /\ UNCHANGED <<program, registryVars, routerVars, decorVars, servers, exchange,
                 inflight>>

\* Application.registerVersion(options)
RegisterVersion(version, ctrls) ==
  /\ application.pc = "constructed"
  /\ versions' = MapSet(versions, [key |-> version, controllers |-> ctrls])
  /\ call' = [op |-> "registerVersion"]
  /\ UNCHANGED <<program, registryVars, routerVars, decorVars, containerVars,
                 application, driverRoutes, listen, servers, exchange, inflight>>

\* one step of Application.listen: the call made, the version and controller
\* it was made for, and whether it returned
Step(op, version, controller, ok) ==
  [op |-> op, version |-> version, controller |-> controller, ok |-> ok]

\* Application.listen, the loop over the routes of one controller.
\* ls = [st, driver, attempts, steps], st the container state (with its
\* error), attempts the registerRoute calls made so far, each with its
\* outcome, and steps the calls of listen() so far
RECURSIVE registerRoutes(_, _, _, _)
registerRoutes(ls, version, controller, controllerRoutes) ==
  IF controllerRoutes = <<>> \/ ls.st.error # NoError THEN ls
  ELSE LET route == Head(controllerRoutes)
           r == driverRegisterRoute(ls.driver, route)
           a == Append(ls.attempts, [method |-> route.method, path |-> route.path,
                                     route |-> route.handler.route, ok |-> r.ok])
           t == Append(ls.steps, Step("registerRoute", version, controller, r.ok))
       IN  IF ~r.ok
           THEN [ls EXCEPT !.st.error = "DriverError", !.attempts = a, !.steps = t]
           ELSE registerRoutes([ls EXCEPT !.driver = r.routes, !.attempts = a,
                                          !.steps = t],
                               version, controller, Tail(controllerRoutes))

\* a loop that builds the routes of a controller without setting it up
RECURSIVE listenControllersWithoutSetup(_, _, _)
listenControllersWithoutSetup(ls, version, ctrls) ==
  IF ctrls = <<>> \/ ls.st.error # NoError THEN ls
  ELSE LET controller == Head(ctrls)
           b == buildControllerRoutes(ls.st, version, controller)
           t2 == Append(ls.steps, Step("buildControllerRoutes", version, controller,
                                       b.st.error = NoError))
       IN  IF b.st.error # NoError THEN [ls EXCEPT !.st = b.st, !.steps = t2]
           ELSE listenControllersWithoutSetup(
                  registerRoutes([ls EXCEPT !.st = b.st, !.steps = t2],
                                 version, controller, b.controllerRoutes),
                  version, Tail(ctrls))

\* Application.listen, the loop over the controllers of one version
RECURSIVE listenControllers(_, _, _)
listenControllers(ls, version, ctrls) ==
  IF ctrls = <<>> \/ ls.st.error # NoError THEN ls
  ELSE LET controller == Head(ctrls)
           s == setupClass(ls.st, controller)
           b == buildControllerRoutes(s, version, controller)
           t1 == Append(ls.steps,
                        Step("setupClass", version, controller, s.error = NoError))
           t2 == Append(t1, Step("buildControllerRoutes", version, controller,
                                 b.st.error = NoError))
       IN  IF s.error # NoError THEN [ls EXCEPT !.st = s, !.steps = t1]
           ELSE IF b.st.error # NoError THEN [ls EXCEPT !.st = b.st, !.steps = t2]
           ELSE listenControllers(
                  registerRoutes([ls EXCEPT !.st = b.st, !.steps = t2],
                                 version, controller, b.controllerRoutes),
                  version, Tail(ctrls))

\* a loop that visits the version registered last first (a plausible slip)
RECURSIVE listenVersionsLastFirst(_, _)
listenVersionsLastFirst(ls, vs) ==
  IF vs = <<>> \/ ls.st.error # NoError THEN ls
  ELSE listenVersionsLastFirst(
         listenControllers(ls, Last(vs).key, Last(vs).controllers),
         SubSeq(vs, 1, Len(vs) - 1))

\* Application.listen, the loop over the registered versions
RECURSIVE listenVersions(_, _)
listenVersions(ls, vs) ==
  IF vs = <<>> \/ ls.st.error # NoError THEN ls
  ELSE listenVersions(listenControllers(ls, Head(vs).key, Head(vs).controllers),
                      Tail(vs))

\* a listen() whose build lists the application's controllers and the
\* classes they depend on only (a plausible slip)
ListenReachable ==
  /\ application.pc = "constructed"
  /\ listen.pc # "building"
  /\ build.pc # "awaiting"
  /\ build.builds < MaxBuilds
  /\ build' = buildIteration(
                SelectSeq(getClassRegistrations("Injectable"),
                          LAMBDA r :
                            \E v \in 1..Len(versions) :
                               \E p \in 1..Len(versions[v].controllers) :
                                  \/ r.target = versions[v].controllers[p]
                                  \/ r.target \in Range(program.dependencies[
                                                          versions[v].controllers[p]])),
                build.builds + 1, bindings)
  /\ listen' = [pc |-> "building", error |-> NoError, before |-> driverRoutes,
                attempts |-> <<>>, servers |-> servers,
                steps |-> <<Step("Container.build", "", NoClass, TRUE)>>,
                message |-> NoMessage, served |-> listen.served]
  /\ call' = [op |-> "listen"]
  /\ UNCHANGED <<program, registryVars, routerVars, decorVars,
                 bindings, cache, instances,
                 application, versions, driverRoutes, servers, exchange, inflight>>

\* Application.listen(options) is called: it runs up to the first await of
\* Container.build.  The listen record keeps what the call found and did:
\* the driver table and the servers before it, its registerRoute attempts,
\* its steps, and the versions of the last call that started a server
Listen ==
  /\ application.pc = "constructed"
  /\ listen.pc # "building"
  /\ build.pc # "awaiting"
  /\ build.builds < MaxBuilds
  /\ build' = buildIteration(getClassRegistrations("Injectable"), build.builds + 1,
                             bindings)
  /\ listen' = [pc |-> "building", error |-> NoError, before |-> driverRoutes,
                attempts |-> <<>>, servers |-> servers,
                steps |-> <<Step("Container.build", "", NoClass, TRUE)>>,
                message |-> NoMessage, served |-> listen.served]
  /\ call' = [op |-> "listen"]
  /\ UNCHANGED <<program, registryVars, routerVars, decorVars,
                 bindings, cache, instances,
                 application, versions, driverRoutes, servers, exchange, inflight>>

\* Container.build has thrown: listen() rejects with its error
ListenBuildFailed ==
  /\ listen.pc = "building"
  /\ build.pc = "failed"
  /\ listen' = [listen EXCEPT !.pc = "rejected", !.error = build.error,
                               !.message = build.message,
                               !.steps = <<Step("Container.build", "", NoClass, FALSE)>>]
  /\ call' = [op |-> "listen"]
  /\ UNCHANGED <<program, registryVars, routerVars, decorVars, containerVars,
                 application, versions, driverRoutes, servers, exchange, inflight>>

\* Container.build has returned: the rest of listen() runs without a pause,
\* the routes of every version are registered and Driver.listen is called
ListenContinue ==
  /\ listen.pc = "building"
  /\ build.pc = "built"
  /\ \E ls \in {listenVersions([st |-> ContainerState, driver |-> driverRoutes,
                               attempts |-> <<>>, steps |-> listen.steps],
                              versions)} :
         /\ ApplyGet(ls.st)
         /\ driverRoutes' = ls.driver
         /\ IF ls.st.error # NoError
            THEN /\ listen' = [pc |-> "rejected", error |-> ls.st.error,
                               before |-> driverRoutes, attempts |-> ls.attempts,
                               servers |-> servers, steps |-> ls.steps,
                               message |-> ls.st.message,
                               served |-> listen.served]
                 /\ servers' = servers
            ELSE /\ listen' = [pc |-> "listening", error |-> NoError,
                               before |-> driverRoutes, attempts |-> ls.attempts,
                               servers |-> servers,
                               steps |-> Append(ls.steps,
                                                Step("Driver.listen", "", NoClass, TRUE)),
                               message |-> NoMessage,
                               served |-> [ok |-> TRUE, versions |-> versions]]
                 /\ servers' = servers + 1
  /\ call' = [op |-> "listen"]
  /\ UNCHANGED <<program, registryVars, controllers, decorVars, bindings, build,
                 application, versions, exchange, inflight>>

\* ------------------------------------------------------------------------
\* Initial states
\* ------------------------------------------------------------------------
InitRegistry ==
  /\ classRegistrations = <<>>
  /\ typeKey = [c \in Classes |-> NoKey]
  /\ symbols = 0
  /\ minted = [c \in Classes |-> <<>>]
  /\ cleared = {}

InitRouter ==
  /\ controllers = {}
  /\ routes = <<>>

InitContainer ==
  /\ containerMetadata = [injectable |-> {}, inject |-> {}]
  /\ reflect = [c \in Injectables |-> [injectable |-> FALSE, inject |-> <<>>]]
  /\ bindings = <<>>
  /\ cache = {}
  /\ instances = <<>>
  /\ build = [pc |-> "idle", queue |-> <<>>, error |-> NoError,
              message |-> NoMessage, position |-> -1, builds |-> 0,
              before |-> <<>>]

\* the order in which the dependency declarations of the model are acyclic:
\* a class declares dependencies on later classes only
ClassOrder == <<"A", "B", "C">>

Later(c) ==
  LET i == CHOOSE i \in 1..Len(ClassOrder) : ClassOrder[i] = c
  IN  {ClassOrder[j] : j \in (i + 1)..Len(ClassOrder)}

DependencyLists(S) == UNION {[1..n -> S] : n \in 0..MaxDeps}

AcyclicDeclarations ==
  {d \in [Injectables -> DependencyLists(Injectables)] :
     \A c \in Injectables : d[c] \in DependencyLists(Later(c))}

\* a controller A with one GET route, and two services
BasicMethods ==
  [c \in Injectables |->
     IF c = "A"
     THEN <<[key |-> "A.m1", method |-> "GET", path |-> <<"items">>,
             methodName |-> "m1", body |-> NoClass]>>
     ELSE <<>>]

BasicPaths == [c \in Injectables |-> IF c = "A" THEN <<"a">> ELSE NoPath]

ContainerPrograms ==
  {[dependencies |-> d,
    hasRegister |-> [c \in Injectables |-> TRUE],
    name |-> [c \in Injectables |-> c],
    path |-> BasicPaths,
    methods |-> BasicMethods] : d \in AcyclicDeclarations}

InitExchange ==
  [req |-> NoExchange.req, route |-> "none", inst |-> 0, methodName |-> "",
   invoked |-> FALSE, args |-> NoArgs,
   outcome |-> NoOutcome, caught |-> FALSE,
   problem |-> NoProblem, res |-> NoResponse]

InitApplication ==
  /\ application = [pc |-> "constructed", driver |-> CoreDriverAdapter,
                    error |-> NoError, message |-> NoMessage]
  /\ versions = <<>>
  /\ driverRoutes = <<>>
  /\ listen = [pc |-> "idle", error |-> NoError, before |-> <<>>,
               attempts |-> <<>>, servers |-> 0, steps |-> <<>>,
               message |-> NoMessage, served |-> [ok |-> FALSE, versions |-> <<>>]]
  /\ servers = 0
  /\ exchange = InitExchange
  /\ inflight = <<>>

InitRegistryOnly ==
  /\ program \in {p \in ContainerPrograms :
                    \A c \in Injectables : p.dependencies[c] = <<>>}
  /\ InitRegistry
  /\ InitRouter
  /\ InitContainer
  /\ InitApplication
  /\ call = NoCall

NextRegistry ==
  \/ \E type \in ClassRegistrationType, target \in RegistryClasses :
        RegisterClass(type, target)
  \/ \E target \in RegistryClasses : ClearRegistration(target)
  \/ \E target \in RegistryClasses : GetRegistrationKey(target)
  \/ \E key \in 1..(MaxSymbols + 1) : GetClassRegistrationByKey(key)

SpecRegistry == InitRegistryOnly /\ [][NextRegistry]_vars

InitContainerOnly ==
  /\ program \in ContainerPrograms
  /\ InitRegistry
  /\ InitRouter
  /\ InitContainer
  /\ InitApplication
  /\ call = NoCall

MethodNames == {"m1", "missing"}

\* the modules of the application are loaded before its first build
NextContainer ==
  \/ \E target \in Injectables : build.builds = 0 /\ DefineClass(target)
  \/ ContainerBuild
  \/ BuildResume
  \/ \E target \in Injectables : SetupClass(target)
  \/ \E key \in 1..MaxSymbols, m \in MethodNames : GetClassMethod(key, m)
  \/ NewContainer

SpecContainer == InitContainerOnly /\ [][NextContainer]_vars

\* ------------------------------------------------------------------------
\* The application start-up on its own
\* ------------------------------------------------------------------------
AppControllers == {"A", "B"}

Route(key, method, path, methodName, body) ==
  [key |-> key, method |-> method, path |-> path, methodName |-> methodName,
   body |-> body]

\* controller A at "a" with one or two routes at "items"; controller B at "a"
\* or "b" with one route at "items"
AppMethodsA ==
  {<<Route("A.m1", "GET", <<"items">>, "m1", NoClass)>>,
   <<Route("A.m1", "GET", <<"items">>, "m1", NoClass),
     Route("A.m2", "POST", <<"items">>, "m2", NoClass)>>,
   <<Route("A.m1", "GET", <<"items">>, "m1", NoClass),
     Route("A.m2", "GET", <<"", "items", "">>, "m2", NoClass)>>}

\* B: its path, its one route, and whether it has a register() method
AppControllersB ==
  {[path |-> <<"a">>, hasRegister |-> TRUE,
    methods |-> <<Route("B.m1", "GET", <<"items">>, "m1", NoClass)>>],
   [path |-> <<"a">>, hasRegister |-> TRUE,
    methods |-> <<Route("B.m1", "POST", <<"items">>, "m1", NoClass)>>],
   [path |-> <<"b">>, hasRegister |-> TRUE,
    methods |-> <<Route("B.m1", "GET", <<"items">>, "m1", NoClass)>>],
   [path |-> <<"b">>, hasRegister |-> FALSE,
    methods |-> <<Route("B.m1", "GET", <<"items">>, "m1", NoClass)>>]}

AppPrograms ==
  {[dependencies |-> [c \in Injectables |-> <<>>],
    hasRegister |-> [c \in Injectables |-> IF c = "B" THEN b.hasRegister ELSE TRUE],
    name |-> [c \in Injectables |-> c],
    path |-> [c \in Injectables |-> IF c = "A" THEN <<"a">>
                                    ELSE IF c = "B" THEN b.path ELSE NoPath],
    methods |-> [c \in Injectables |-> IF c = "A" THEN ma
                                       ELSE IF c = "B" THEN b.methods ELSE <<>>]] :
     ma \in AppMethodsA, b \in AppControllersB}

AppVersions == {"v1"}

AppControllerLists == {<<"A">>, <<"A", "B">>, <<"B", "A">>}

\* a handler that returns a string
ReturnsText == [how |-> "return", value |-> [t |-> "string", text |-> <<"ok">>]]

AppRequests ==
  {[method |-> m, path |-> <<"v1", "a", "items">>,
    body |-> [t |-> "empty", data |-> ""]] : m \in {"GET", "POST"}}

InitApp ==
  /\ program \in AppPrograms
  /\ InitRegistry
  /\ InitRouter
  /\ InitContainer
  /\ InitApplication
  /\ call = NoCall

NextApp ==
  \/ \E target \in AppControllers : DefineClass(target)
  \/ \E version \in AppVersions, ctrls \in AppControllerLists :
        RegisterVersion(version, ctrls)
  \/ Listen
  \/ BuildResume
  \/ ListenBuildFailed
  \/ ListenContinue
  \/ \E request \in AppRequests : Request(request, ReturnsText)

SpecApp == InitApp /\ [][NextApp]_vars

\* ------------------------------------------------------------------------
\* Request handling on a started application
\* ------------------------------------------------------------------------

\* controller A at "a":  GET items, POST items (body In), GET items/:id and
\* POST :name/:id, declared in this order
HttpProgram ==
  [dependencies |-> [c \in Injectables |-> <<>>],
   hasRegister |-> [c \in Injectables |-> TRUE],
   name |-> [c \in Injectables |-> c],
   path |-> BasicPaths,
   methods |-> [c \in Injectables |->
                  IF c = "A"
                  THEN <<Route("A.m1", "GET", <<"items">>, "m1", NoClass),
                         Route("A.m2", "POST", <<"items">>, "m2", "In"),
                         Route("A.m3", "GET", <<"items", ":id">>, "m3", NoClass),
                         Route("A.m4", "POST", <<":name", ":id">>, "m4", NoClass)>>
                  ELSE <<>>]]

EmptyBody == [t |-> "empty", data |-> ""]

InvalidBody == [t |-> "invalid", data |-> "{"]

JsonBody == [t |-> "json", data |-> "{\"name\":\"x\"}"]

HttpRequest(method, path, body) == [method |-> method, path |-> path, body |-> body]

HttpRequests ==
  {HttpRequest("GET", <<"v1", "a", "items">>, EmptyBody),
   HttpRequest("POST", <<"v1", "a", "items">>, EmptyBody),
   HttpRequest("POST", <<"v1", "a", "items">>, InvalidBody),
   HttpRequest("POST", <<"v1", "a", "items">>, JsonBody),
   HttpRequest("GET", <<"v1", "a", "items", "7">>, EmptyBody),
   HttpRequest("POST", <<"v1", "a", "items", "7">>, JsonBody),
   HttpRequest("POST", <<"v1", "a", "x", "7">>, JsonBody),
   HttpRequest("DELETE", <<"v1", "a", "items">>, EmptyBody),
   HttpRequest("GET", <<"v1", "unknown">>, EmptyBody)}

\* what a controller method may return or resolve to
Returned ==
  {[t |-> "string", text |-> <<"hi">>],
   [t |-> "string", text |-> <<>>],
   [t |-> "object", props |-> <<[key |-> "name", value |-> Quote(<<"x">>)]>>],
   [t |-> "object", props |-> <<>>],
   [t |-> "null"],
   [t |-> "undefined"],
   [t |-> "other"],
   [t |-> "unserialisable"],
   [t |-> "Response", id |-> 1]}

StatusCode(n) == [has |-> TRUE, number |-> TRUE, n |-> n]

\* what a controller method may throw or reject with
Thrown ==
  {[kind |-> "Error", name |-> "Error", message |-> <<"kaboom">>,
    statusCode |-> NoStatusCode],
   [kind |-> "Error", name |-> "Error", message |-> <<>>,
    statusCode |-> NoStatusCode],
   [kind |-> "Error", name |-> "HttpError", message |-> <<"broken">>,
    statusCode |-> StatusCode(500)],
   [kind |-> "Error", name |-> "NotFoundError", message |-> <<"missing">>,
    statusCode |-> StatusCode(404)],
   [kind |-> "Error", name |-> "Error", message |-> <<"bad">>,
    statusCode |-> StatusCode(400)],
   [kind |-> "Error", name |-> "Error", message |-> <<"unchanged">>,
    statusCode |-> StatusCode(304)],
   [kind |-> "Error", name |-> "Error", message |-> <<"odd">>,
    statusCode |-> StatusCode(999)],
   [kind |-> "Error", name |-> "Error", message |-> <<"text">>,
    statusCode |-> [has |-> TRUE, number |-> FALSE, n |-> 404]],
   [kind |-> "object", name |-> "Object", message |-> <<>>,
    statusCode |-> StatusCode(400)],
   [kind |-> "object", name |-> "Object", message |-> <<>>,
    statusCode |-> NoStatusCode],
   [kind |-> "string", name |-> "", message |-> <<"kaboom">>,
    statusCode |-> NoStatusCode],
   [kind |-> "undefined", name |-> "", message |-> <<>>,
    statusCode |-> NoStatusCode],
   [kind |-> "opaque", name |-> "", message |-> <<>>,
    statusCode |-> NoStatusCode]}

Outcomes ==
  {[how |-> "return", value |-> v] : v \in Returned}
    \cup {[how |-> "throw", error |-> e] : e \in Thrown}

InitHttp ==
  /\ program = HttpProgram
  /\ InitRegistry
  /\ InitRouter
  /\ InitContainer
  /\ InitApplication
  /\ call = NoCall

\* the modules are loaded (each class decorator runs once), the version is
\* registered and the application is started once; then requests arrive
NextHttp ==
  \/ typeKey["In"] = NoKey /\ RegisterClass("InputType", "In")
  \/ DefineClass("A")
  \/ listen.pc = "idle" /\ RegisterVersion("v1", <<"A">>)
  \/ listen.pc = "idle" /\ Listen
  \/ BuildResume
  \/ ListenContinue
  \/ \E request \in HttpRequests, outcome \in Outcomes : Request(request, outcome)

SpecHttp == InitHttp /\ [][NextHttp]_vars

\* ------------------------------------------------------------------------
\* Start-up failures: lookups, controllers without metadata, body classes
\* ------------------------------------------------------------------------

\* A is a controller at "a" with one POST route whose body class is absent,
\* "In" or "Out"
StartupMethodsA ==
  {<<Route("A.m1", "POST", <<"items">>, "m1", body)>> : body \in {NoClass} \cup Models}

\* B is a controller at "b", a @Service that carries a route decorator, or a
\* controller without a register() method
StartupControllersB ==
  {[path |-> <<"b">>, hasRegister |-> TRUE,
    methods |-> <<Route("B.m1", "GET", <<"items">>, "m1", NoClass)>>],
   [path |-> NoPath, hasRegister |-> TRUE,
    methods |-> <<Route("B.m1", "GET", <<"items">>, "m1", NoClass)>>],
   [path |-> <<"b">>, hasRegister |-> FALSE,
    methods |-> <<Route("B.m1", "GET", <<"items">>, "m1", NoClass)>>]}

StartupPrograms ==
  {[dependencies |-> [c \in Injectables |-> <<>>],
    hasRegister |-> [c \in Injectables |-> IF c = "B" THEN b.hasRegister ELSE TRUE],
    name |-> [c \in Injectables |-> c],
    path |-> [c \in Injectables |-> IF c = "A" THEN <<"a">>
                                    ELSE IF c = "B" THEN b.path ELSE NoPath],
    methods |-> [c \in Injectables |-> IF c = "A" THEN ma
                                       ELSE IF c = "B" THEN b.methods ELSE <<>>]] :
     ma \in StartupMethodsA, b \in StartupControllersB}

StartupControllerLists == {<<"A">>, <<"B">>, <<"A", "B">>}

StartupRequests ==
  {HttpRequest("POST", <<"v1", "a", "items">>, JsonBody),
   HttpRequest("GET", <<"v1", "b", "items">>, EmptyBody)}

InitStartup ==
  /\ program \in StartupPrograms
  /\ InitRegistry
  /\ InitRouter
  /\ InitContainer
  /\ InitApplication
  /\ call = NoCall

\* no injectable is defined yet: a route decorator names its body class, so
\* the module of a model class is evaluated before the controllers
ModelsFirst == \A c \in Injectables : typeKey[c] = NoKey

\* the model classes and the injectables are defined at most once each; In
\* is an @InputType and Out an @ObjectType.  The lookups depend on the
\* registry alone, which takes every value it can take before listen()
NextStartup ==
  \/ ModelsFirst /\ typeKey["In"] = NoKey /\ RegisterClass("InputType", "In")
  \/ ModelsFirst /\ typeKey["Out"] = NoKey /\ RegisterClass("ObjectType", "Out")
  \/ \E target \in AppControllers : DefineClass(target)
  \/ \E ctrls \in StartupControllerLists : RegisterVersion("v1", ctrls)
  \/ \E target \in AppControllers \cup Models :
        listen.pc = "idle" /\ GetRegistrationKey(target)
  \/ \E key \in 1..(MaxSymbols + 1) :
        listen.pc = "idle" /\ GetClassRegistrationByKey(key)
  \* startup is retried only after a listen() that opened no server
  \/ servers = 0 /\ Listen
  \/ BuildResume
  \/ ListenBuildFailed
  \/ ListenContinue
  \/ \E request \in StartupRequests : Request(request, ReturnsText)

SpecStartup == InitStartup /\ [][NextStartup]_vars

\* ------------------------------------------------------------------------
\* The paths of the routes
\* ------------------------------------------------------------------------

\* the segments a given path is made of: a name, nothing (a doubled, leading
\* or trailing slash), ".", ".." and a backslash
PathSegments == {"items", "", ".", "..", Backslash}

\* the paths given to @Controller and to a route decorator
PathInputs == UNION {[1..n -> PathSegments] : n \in 0..MaxPathLen}

\* controller A with the path c and one GET route with the path r
PathPrograms ==
  {[dependencies |-> [x \in Injectables |-> <<>>],
    hasRegister |-> [x \in Injectables |-> TRUE],
    name |-> [x \in Injectables |-> x],
    path |-> [x \in Injectables |-> IF x = "A" THEN c ELSE NoPath],
    methods |-> [x \in Injectables |->
                   IF x = "A" THEN <<Route("A.m1", "GET", r, "m1", NoClass)>>
                   ELSE <<>>]] :
     c \in PathInputs \ {NoPath}, r \in PathInputs}

InitPath ==
  /\ program \in PathPrograms
  /\ InitRegistry
  /\ InitRouter
  /\ InitContainer
  /\ InitApplication
  /\ call = NoCall

\* the controller is defined, registered under v1 and the application is
\* started once
NextPath ==
  \/ DefineClass("A")
  \/ listen.pc = "idle" /\ RegisterVersion("v1", <<"A">>)
  \/ listen.pc = "idle" /\ Listen
  \/ BuildResume
  \/ ListenContinue

SpecPath == InitPath /\ [][NextPath]_vars

\* ------------------------------------------------------------------------
\* Container builds over invalid registrations
\* ------------------------------------------------------------------------
BuildClasses == {"A", "B"}

\* what register() of A and of B returns: A may depend on B, and a
\* descriptor may lack its class reference
BuildDeclarations ==
  {d \in [Injectables -> DependencyLists(Injectables \cup {NoClass})] :
     /\ d["A"] \in DependencyLists({"B", NoClass})
     /\ d["B"] \in DependencyLists({NoClass})
     /\ d["C"] = <<>>}

\* the classes with and without a register() method
BuildPrograms ==
  {[dependencies |-> d,
    hasRegister |-> [c \in Injectables |-> c \in withRegister],
    name |-> [c \in Injectables |-> c],
    path |-> BasicPaths,
    methods |-> BasicMethods] :
     d \in BuildDeclarations, withRegister \in SUBSET BuildClasses}

InitBuild ==
  /\ program \in BuildPrograms
  /\ InitRegistry
  /\ InitRouter
  /\ InitContainer
  /\ InitApplication
  /\ call = NoCall

NextBuild ==
  \/ \E target \in BuildClasses : DefineClass(target)
  \/ ContainerBuild
  \/ BuildResume
  \/ NewContainer

SpecBuild == InitBuild /\ [][NextBuild]_vars

\* ------------------------------------------------------------------------
\* The order of the steps of listen()
\* ------------------------------------------------------------------------

\* controller A at "a" with two routes and controller B at "b" with one
OrderProgram ==
  [dependencies |-> [c \in Injectables |-> <<>>],
   hasRegister |-> [c \in Injectables |-> TRUE],
   name |-> [c \in Injectables |-> c],
   path |-> [c \in Injectables |-> IF c = "A" THEN <<"a">>
                                   ELSE IF c = "B" THEN <<"b">> ELSE NoPath],
   methods |-> [c \in Injectables |->
                  IF c = "A"
                  THEN <<Route("A.m1", "GET", <<"items">>, "m1", NoClass),
                         Route("A.m2", "POST", <<"items">>, "m2", NoClass)>>
                  ELSE IF c = "B"
                  THEN <<Route("B.m1", "GET", <<"items">>, "m1", NoClass)>>
                  ELSE <<>>]]

OrderVersions == {"v1", "v2"}

InitOrder ==
  /\ program = OrderProgram
  /\ InitRegistry
  /\ InitRouter
  /\ InitContainer
  /\ InitApplication
  /\ call = NoCall

NextOrder ==
  \/ \E target \in AppControllers : DefineClass(target)
  \/ \E version \in OrderVersions, ctrls \in AppControllerLists :
        RegisterVersion(version, ctrls)
  \/ Listen
  \/ BuildResume
  \/ ListenContinue

SpecOrder == InitOrder /\ [][NextOrder]_vars

\* ------------------------------------------------------------------------
\* The construction of the application
\* ------------------------------------------------------------------------

\* a Driver object of the caller's own
CustomDriver == [t |-> "object", class |-> "CustomDriver"]

\* the driver option: absent, a Driver object, or a string
DriverOptions ==
  {[t |-> "undefined"], CustomDriver, CoreDriverAdapter}
    \cup {[t |-> "string", value |-> v] : v \in {"Core", "unsupported", "core", ""}}

\* the application is not constructed yet
InitConstruct ==
  /\ program = OrderProgram
  /\ InitRegistry
  /\ InitRouter
  /\ InitContainer
  /\ application = NoApplication
  /\ versions = <<>>
  /\ driverRoutes = <<>>
  /\ listen = [pc |-> "idle", error |-> NoError, before |-> <<>>,
               attempts |-> <<>>, servers |-> 0, steps |-> <<>>,
               message |-> NoMessage, served |-> [ok |-> FALSE, versions |-> <<>>]]
  /\ servers = 0
  /\ exchange = InitExchange
  /\ inflight = <<>>
  /\ call = NoCall

\* new Application(options) is called once; the model of listen() is that of
\* the core driver
NextConstruct ==
  \/ \E driver \in DriverOptions : Construct([driver |-> driver])
  \/ \E target \in AppControllers : DefineClass(target)
  \/ \E ctrls \in AppControllerLists : RegisterVersion("v1", ctrls)
  \/ application.driver = CoreDriverAdapter /\ listen.pc = "idle" /\ Listen
  \/ BuildResume
  \/ ListenContinue

SpecConstruct == InitConstruct /\ [][NextConstruct]_vars

\* ------------------------------------------------------------------------
\* Builds over classes that share a name
\* ------------------------------------------------------------------------

\* the names of the classes: B may be a second class called "A" (a class of
\* another module)
ClassNames ==
  {[c \in Injectables |-> IF c = "B" THEN b ELSE c] : b \in {"A", "B"}}

NamePrograms ==
  {[dependencies |-> d,
    hasRegister |-> [c \in Injectables |-> TRUE],
    name |-> n,
    path |-> BasicPaths,
    methods |-> BasicMethods] : d \in AcyclicDeclarations, n \in ClassNames}

InitNames ==
  /\ program \in NamePrograms
  /\ InitRegistry
  /\ InitRouter
  /\ InitContainer
  /\ InitApplication
  /\ call = NoCall

\* the modules are loaded, then containers are built, each build on a
\* container of its own, and their classes are resolved
NextNames ==
  \/ \E target \in Injectables : build.builds = 0 /\ DefineClass(target)
  \/ bindings = <<>> /\ ContainerBuild
  \/ BuildResume
  \/ \E target \in Injectables : build.pc = "built" /\ SetupClass(target)
  \/ \E key \in 1..MaxSymbols, m \in MethodNames :
        build.pc = "built" /\ GetClassMethod(key, m)
  \/ NewContainer

SpecNames == InitNames /\ [][NextNames]_vars

\* ------------------------------------------------------------------------
\* Requests that several registered paths match
\* ------------------------------------------------------------------------

\* controller A at "a" with a GET route at "items/:id" and a GET and a POST
\* route at "items/special", the pattern declared before or after the
\* literal path
MatchMethodsA ==
  {<<Route("A.m1", "GET", <<"items", ":id">>, "m1", NoClass),
     Route("A.m2", "GET", <<"items", "special">>, "m2", NoClass),
     Route("A.m3", "POST", <<"items", "special">>, "m3", NoClass)>>,
   <<Route("A.m2", "GET", <<"items", "special">>, "m2", NoClass),
     Route("A.m3", "POST", <<"items", "special">>, "m3", NoClass),
     Route("A.m1", "GET", <<"items", ":id">>, "m1", NoClass)>>}

MatchPrograms ==
  {[dependencies |-> [c \in Injectables |-> <<>>],
    hasRegister |-> [c \in Injectables |-> TRUE],
    name |-> [c \in Injectables |-> c],
    path |-> BasicPaths,
    methods |-> [c \in Injectables |-> IF c = "A" THEN ma ELSE <<>>]] :
     ma \in MatchMethodsA}

MatchRequests ==
  {HttpRequest("GET", <<"v1", "a", "items", "special">>, EmptyBody),
   HttpRequest("POST", <<"v1", "a", "items", "special">>, EmptyBody),
   HttpRequest("GET", <<"v1", "a", "items", "7">>, EmptyBody),
   HttpRequest("POST", <<"v1", "a", "items", "7">>, EmptyBody),
   HttpRequest("GET", <<"v1", "a", "items">>, EmptyBody)}

InitMatch ==
  /\ program \in MatchPrograms
  /\ InitRegistry
  /\ InitRouter
  /\ InitContainer
  /\ InitApplication
  /\ call = NoCall

\* the application is started once; then requests arrive
NextMatch ==
  \/ DefineClass("A")
  \/ listen.pc = "idle" /\ RegisterVersion("v1", <<"A">>)
  \/ listen.pc = "idle" /\ Listen
  \/ BuildResume
  \/ ListenContinue
  \/ \E request \in MatchRequests, outcome \in Outcomes : Request(request, outcome)

SpecMatch == InitMatch /\ [][NextMatch]_vars

\* ------------------------------------------------------------------------
\* Controllers instantiated by several containers
\* ------------------------------------------------------------------------

\* controller A at "a" with a GET route and a POST route whose body is In;
\* A depends on the controller B at "b", which has one GET route
RoutesProgram ==
  [dependencies |-> [c \in Injectables |-> IF c = "A" THEN <<"B">> ELSE <<>>],
   hasRegister |-> [c \in Injectables |-> TRUE],
   name |-> [c \in Injectables |-> c],
   path |-> [c \in Injectables |-> IF c = "A" THEN <<"a">>
                                   ELSE IF c = "B" THEN <<"b">> ELSE NoPath],
   methods |-> [c \in Injectables |->
                  IF c = "A"
                  THEN <<Route("A.m1", "GET", <<"items">>, "m1", NoClass),
                         Route("A.m2", "POST", <<"items">>, "m2", "In")>>
                  ELSE IF c = "B"
                  THEN <<Route("B.m1", "GET", <<"items">>, "m1", NoClass)>>
                  ELSE <<>>]]

InitRoutes ==
  /\ program = RoutesProgram
  /\ InitRegistry
  /\ InitRouter
  /\ InitContainer
  /\ InitApplication
  /\ call = NoCall

\* the modules are loaded, the body class first; then containers are built,
\* each build on a container of its own, and the controllers are set up
NextRoutes ==
  \/ ModelsFirst /\ typeKey["In"] = NoKey /\ RegisterClass("InputType", "In")
  \/ \E target \in AppControllers : DefineClass(target)
  \/ bindings = <<>> /\ ContainerBuild
  \/ BuildResume
  \/ \E target \in AppControllers : build.pc = "built" /\ SetupClass(target)
  \/ NewContainer

SpecRoutes == InitRoutes /\ [][NextRoutes]_vars

\* ------------------------------------------------------------------------
\* Requests handled concurrently
\* ------------------------------------------------------------------------

OtherJsonBody == [t |-> "json", data |-> "{\"name\":\"y\"}"]

ConcurrentRequests ==
  {HttpRequest("POST", <<"v1", "a", "items">>, JsonBody),
   HttpRequest("POST", <<"v1", "a", "items">>, OtherJsonBody),
   HttpRequest("POST", <<"v1", "a", "items">>, InvalidBody),
   HttpRequest("GET", <<"v1", "a", "items", "7">>, EmptyBody),
   HttpRequest("GET", <<"v1", "a", "items", "8">>, EmptyBody),
   HttpRequest("GET", <<"v1", "unknown">>, EmptyBody)}

\* what the controller method of a request does
ConcurrentOutcomes ==
  {[how |-> "return", value |-> [t |-> "string", text |-> <<"hi">>]],
   [how |-> "return",
    value |-> [t |-> "object",
               props |-> <<[key |-> "name", value |-> Quote(<<"x">>)]>>]],
   [how |-> "throw",
    error |-> [kind |-> "Error", name |-> "Error", message |-> <<"kaboom">>,
               statusCode |-> NoStatusCode]]}

\* the application of HttpProgram is started once; then requests arrive and
\* their handlers run in any interleaving
NextConcurrent ==
  \/ typeKey["In"] = NoKey /\ RegisterClass("InputType", "In")
  \/ DefineClass("A")
  \/ listen.pc = "idle" /\ RegisterVersion("v1", <<"A">>)
  \/ listen.pc = "idle" /\ Listen
  \/ BuildResume
  \/ ListenContinue
  \/ \E request \in ConcurrentRequests : Accept(request)
  \/ \E k \in 1..MaxInflight : Deserialised(k)
  \/ \E k \in 1..MaxInflight, outcome \in ConcurrentOutcomes : Settled(k, outcome)

SpecConcurrent == InitHttp /\ [][NextConcurrent]_vars

\* ------------------------------------------------------------------------
\* Routes recorded by the initializers of a controller
\* ------------------------------------------------------------------------

InitializerControllerLists == {<<"A">>, <<"B">>, <<"A", "B">>, <<"B", "A">>}

\* the modules of RoutesProgram are loaded, the body class first.  Then
\* either the router is used directly (one container is built, controllers
\* are set up and buildControllerRoutes is called in any order) or the
\* application registers a version and listens once
NextInitializers ==
  \/ ModelsFirst /\ typeKey["In"] = NoKey /\ RegisterClass("InputType", "In")
  \/ \E target \in AppControllers : DefineClass(target)
  \/ build.builds = 0 /\ ContainerBuild
  \/ BuildResume
  \/ \E target \in AppControllers :
        build.pc = "built" /\ listen.pc = "idle" /\ SetupClass(target)
  \/ \E controller \in AppControllers :
        /\ listen.pc = "idle"
        /\ build.pc \in {"idle", "built"}
        /\ BuildControllerRoutes("v1", controller)
  \/ \E ctrls \in InitializerControllerLists :
        /\ versions = <<>>
        /\ build.builds = 0
        /\ \A i \in 1..Len(ctrls) : typeKey[ctrls[i]] # NoKey
        /\ RegisterVersion("v1", ctrls)
  \/ versions # <<>> /\ build.builds = 0 /\ Listen
  \/ ListenBuildFailed
  \/ ListenContinue

SpecInitializers == InitRoutes /\ [][NextInitializers]_vars

\* ------------------------------------------------------------------------
\* Applications of one process
\* ------------------------------------------------------------------------

\* controller A depends on the service B; the application registers A only.
\* The service C is not used by A: it may lack register(), and its
\* register() may return no descriptor, a descriptor without a class, or B
ProcessPrograms ==
  {[dependencies |-> [c \in Injectables |->
                        IF c = "A" THEN <<"B">> ELSE IF c = "C" THEN d ELSE <<>>],
    hasRegister |-> [c \in Injectables |-> c # "C" \/ r],
    name |-> [c \in Injectables |-> c],
    path |-> BasicPaths,
    methods |-> BasicMethods] :
     d \in {<<>>, <<NoClass>>, <<"B">>}, r \in BOOLEAN}

InitProcess ==
  /\ program \in ProcessPrograms
  /\ InitRegistry
  /\ InitRouter
  /\ InitContainer
  /\ InitApplication
  /\ call = NoCall

\* classes are defined and cleared while no listen() is in progress; each
\* application registers its version and listens once, and the next
\* application is constructed after that listen() has settled
NextProcess ==
  \/ \E target \in Injectables : listen.pc # "building" /\ DefineClass(target)
  \/ \E target \in Injectables :
        /\ listen.pc # "building"
        /\ typeKey[target] # NoKey
        /\ typeKey[target] \notin cleared
        /\ ClearRegistration(target)
  \/ versions = <<>> /\ listen.pc = "idle" /\ RegisterVersion("v1", <<"A">>)
  \/ versions # <<>> /\ listen.pc = "idle" /\ Listen
  \/ BuildResume
  \/ ListenBuildFailed
  \/ ListenContinue
  \/ listen.pc \in {"rejected", "listening"} /\ NewApplication

SpecProcess == InitProcess /\ [][NextProcess]_vars

\* ------------------------------------------------------------------------
\* Properties of the registration registry
\* ------------------------------------------------------------------------

MintedKeys(c) == Range(minted[c])

EntriesOf(c) == {i \in 1..Len(classRegistrations) : classRegistrations[i].target = c}

\* C10: after any sequence of registerClass calls, getRegistrationKey(C)
\* returns on every call the key minted by the most recent registerClass
\* call for C; every registerClass call mints a key distinct from all
\* earlier keys; an earlier registration of C stays in the registry under
\* its old key, so that (when nothing was cleared) the registry lists C
\* once per registerClass call.
C10_LatestKeyAndOrphans ==
  /\ \A c \in Classes : minted[c] # <<>> =>
        /\ getRegistrationKey(c).ok
        /\ getRegistrationKey(c).key = Last(minted[c])
  /\ (call.op = "getRegistrationKey" /\ minted[call.target] # <<>>) =>
        (call.ok /\ call.key = Last(minted[call.target]))
  /\ \A c \in Classes : \A i, j \in 1..Len(minted[c]) :
        i # j => minted[c][i] # minted[c][j]
  /\ \A c, d \in Classes : c # d => MintedKeys(c) \cap MintedKeys(d) = {}
  /\ \A c \in Classes : \A k \in MintedKeys(c) \ cleared :
        RegistryHas(k) /\ RegistryGet(k).target = c
  /\ cleared = {} =>
        \A c \in Classes : Cardinality(EntriesOf(c)) = Len(minted[c])

\* a class registered twice whose key was then looked up, the first
\* registration still being in the registry
C10_Witness ==
  /\ call.op = "getRegistrationKey"
  /\ call.ok
  /\ Len(minted[call.target]) >= 2
  /\ cleared = {}
  /\ Cardinality(EntriesOf(call.target)) >= 2

\* ------------------------------------------------------------------------
\* Properties of the dependency container
\* ------------------------------------------------------------------------

\* C1: for any acyclic dependency declaration among registered injectables,
\* whatever setupClass and getClassMethod calls are made on a container, each
\* class is constructed at most once, every dependency is constructed before
\* the class that depends on it, and the constructor of a class receives, in
\* declaration order, the one instance of each class it depends on.
C1_SingletonsInDependencyOrder ==
  /\ \A i, j \in 1..Len(instances) :
        i # j => instances[i].class # instances[j].class
  /\ \A i \in 1..Len(instances) :
        LET deps == program.dependencies[instances[i].class]
            args == instances[i].args
        IN  /\ Len(args) = Len(deps)
            /\ \A p \in 1..Len(deps) :
                  /\ args[p] < i
                  /\ instances[args[p]].class = deps[p]

\* the chain A -> B -> C with A depending on C as well, fully constructed
\* after a build: C first, then B, then A, both given the same C
C1_Witness ==
  /\ build.pc = "built"
  /\ program.dependencies["A"] = <<"B", "C">>
  /\ program.dependencies["B"] = <<"C">>
  /\ Len(instances) = 3
  /\ instances[1].class = "C"
  /\ instances[2].class = "B" /\ instances[2].args = <<1>>
  /\ instances[3].class = "A" /\ instances[3].args = <<2, 1>>
  /\ call.op = "getClassMethod" /\ call.error = NoError

\* ------------------------------------------------------------------------
\* Properties of the application start-up
\* ------------------------------------------------------------------------

\* the <<method, path>> pairs a driver route table holds
TableKeys(dr) ==
  UNION {{<<m.method, dr[k].path>> : m \in dr[k].methods} : k \in 1..Len(dr)}

\* the route declaration of the program that has a given key, and its class
RouteDecl(key) ==
  CHOOSE d \in UNION {Range(program.methods[c]) : c \in Injectables} : d.key = key

RouteClass(key) ==
  CHOOSE c \in Injectables : \E d \in Range(program.methods[c]) : d.key = key

\* C2: during Application.listen(), a registerRoute call fails with
\* DriverError if and only if a route with the same method and the same
\* final path is already in the driver's table (from this call or an earlier
\* one, from the same controller or another); the failure ends the call;
\* every other route is registered under its path and method, so that two
\* routes with one path and different methods are both in the table; and a
\* request that is dispatched reaches the handler declared for its own
\* method and path.
C2_DuplicateRouteIffRegistered ==
  /\ \A i \in 1..Len(listen.attempts) :
        LET a == listen.attempts[i]
            earlier == TableKeys(listen.before)
                         \cup {<<listen.attempts[j].method, listen.attempts[j].path>> :
                                 j \in 1..(i - 1)}
        IN  /\ a.ok <=> <<a.method, a.path>> \notin earlier
            /\ i < Len(listen.attempts) => a.ok
            /\ a.ok => \E k \in 1..Len(driverRoutes) :
                          /\ driverRoutes[k].path = a.path
                          /\ \E m \in driverRoutes[k].methods :
                                m.method = a.method /\ m.handler.route = a.route
  /\ (listen.pc = "rejected" /\ listen.error = "DriverError")
        <=> (listen.attempts # <<>> /\ ~Last(listen.attempts).ok)
  /\ (call.op = "request" /\ exchange.invoked) =>
        LET d == RouteDecl(exchange.route) IN
        /\ d.method = exchange.req.method
        /\ d.methodName = exchange.methodName
        /\ instances[exchange.inst].class = RouteClass(exchange.route)
        /\ \E v \in AppVersions :
              PatternMatches(buildRoutePath(v, program.path[RouteClass(exchange.route)],
                                            d.path),
                             exchange.req.path)

\* a POST request was dispatched to the POST handler of a path that also has
\* a GET handler, and a later listen() was rejected with DriverError by a
\* route of another controller at the same method and path
C2_Witness ==
  /\ listen.pc = "rejected"
  /\ listen.error = "DriverError"
  /\ Last(listen.attempts).route = "B.m1"
  /\ exchange.invoked
  /\ exchange.req.method = "POST"
  /\ exchange.route = "A.m2"
  /\ \E k \in 1..Len(driverRoutes) : Cardinality(driverRoutes[k].methods) = 2

\* C3: if a start-up step of Application.listen() fails, listen() rejects
\* with that error and Driver.listen is not invoked by that call (no server
\* is started), so no request is ever served from a route table that a
\* failed call has built in part.
C3_NoPartialRouteTable ==
  /\ listen.pc = "rejected" =>
        /\ listen.error # NoError
        /\ servers = listen.servers
  /\ (listen.pc = "rejected" /\ call.op = "request") =>
        driverRoutes = listen.before

\* ------------------------------------------------------------------------
\* Properties of request handling
\* ------------------------------------------------------------------------

\* the registered paths that match a request path, and the first of them
MatchingPaths(path) ==
  {k \in 1..Len(driverRoutes) : PatternMatches(driverRoutes[k].path, path)}

FirstMatching(path) ==
  CHOOSE k \in MatchingPaths(path) : \A j \in MatchingPaths(path) : k <= j

Unroutable(request) ==
  \/ MatchingPaths(request.path) = {}
  \/ ~\E m \in driverRoutes[FirstMatching(request.path)].methods :
         m.method = request.method

\* C4: for every request, if no registered path matches the request path,
\* or the first matching path has no handler for the request method, no
\* route handler is invoked and the response has status 404, content-type
\* application/problem+json and the body {status: 404, title: "Not Found",
\* detail: "Route <METHOD> <pathname> not found"}: a method mismatch is a
\* 404, never a 405.
C4_UnmatchedIsNotFound ==
  (call.op = "request" /\ Unroutable(exchange.req)) =>
     /\ ~exchange.invoked
     /\ exchange.route = "none"
     /\ exchange.res.settled = "resolved"
     /\ exchange.res.status = 404
     /\ exchange.res.contentType = "application/problem+json"
     /\ exchange.problem =
          [status |-> 404, title |-> <<"Not Found">>,
           detail |-> <<"Route ", exchange.req.method, " ">>
                        \o PathText(exchange.req.path) \o <<" not found">>]
     /\ exchange.res.text = JSONStringify(ProblemObject(exchange.problem))

\* a POST to a path whose first matching pattern has only a GET handler,
\* while a later pattern that also matches has a POST handler, got a 404
C4_Witness ==
  /\ call.op = "request"
  /\ exchange.req.method = "POST"
  /\ exchange.req.path = <<"v1", "a", "items", "7">>
  /\ Cardinality(MatchingPaths(exchange.req.path)) = 2
  /\ exchange.res.status = 404
  /\ ~exchange.invoked

ValidStatusCode(error) ==
  /\ error.kind \in {"Error", "object", "opaque"}
  /\ error.statusCode.has
  /\ error.statusCode.number
  /\ error.statusCode.n \in DOMAIN STATUS_TEXT

\* C5: when a controller method throws, or rejects with, a value that
\* carries no valid numeric statusCode, the route handler responds with
\* status 500, content-type application/problem+json and the body
\* {status: 500, title: "Internal Server Error", detail}, detail being the
\* message of an Error with a non-empty message and String(value) otherwise.
C5_UnclassifiedErrorIs500 ==
  (call.op = "request" /\ exchange.invoked /\ exchange.outcome.how = "throw"
     /\ ~ValidStatusCode(exchange.outcome.error)) =>
     LET error == exchange.outcome.error IN
     /\ exchange.res.settled = "resolved"
     /\ exchange.res.status = 500
     /\ exchange.res.contentType = "application/problem+json"
     /\ exchange.problem =
          [status |-> 500, title |-> <<"Internal Server Error">>,
           detail |-> IF error.kind = "Error" /\ error.message # <<>>
                      THEN error.message ELSE String(error)]
     /\ exchange.res.text = JSONStringify(ProblemObject(exchange.problem))

\* C6: for every request dispatched to a built route handler, the promise of
\* the handler resolves to a Response and never rejects, whatever the
\* controller method throws, rejects with or returns and whatever the
\* request body holds.
C6_HandlerNeverRejects ==
  (call.op = "request" /\ exchange.route # "none") =>
     exchange.res.settled = "resolved"

\* C7: a route with a declared body class T, on a request with a non-empty
\* JSON body o, invokes the controller method with (context, pathParams,
\* body), body being a new instance of T that carries the properties of o
\* and pathParams the groups of the matched URL pattern; when the route
\* declares no body class, or the request body is empty, body is undefined.
C7_MethodArguments ==
  (call.op = "request" /\ exchange.invoked) =>
     LET d == RouteDecl(exchange.route)
         req == exchange.req
     IN  /\ exchange.args.request = req
         /\ exchange.args.params =
              PatternGroups(driverRoutes[FirstMatching(req.path)].path, req.path)
         /\ (d.body # NoClass /\ req.body.t = "json") =>
               exchange.args.body =
                 [t |-> "instance", class |-> d.body, data |-> req.body.data]
         /\ (d.body = NoClass \/ req.body.t = "empty") =>
               exchange.args.body = NoBody

\* the POST route with body class In was invoked with an instance of In
\* made from the JSON body
C7_Witness ==
  /\ call.op = "request"
  /\ exchange.invoked
  /\ exchange.route = "A.m2"
  /\ exchange.args.body = [t |-> "instance", class |-> "In",
                           data |-> JsonBody.data]

\* C8: processResponse normalises the result of a handler: a Response is
\* returned as the identical object, nothing added; a string is sent as it
\* is and any other object as its JSON serialisation, with status 200 and an
\* etag header that is the hash of exactly the serialised body; an
\* undefined result gives an empty body and no etag header.
C8_ResponseNormalisation ==
  (call.op = "request" /\ exchange.invoked /\ exchange.outcome.how = "return") =>
     LET v == exchange.outcome.value
         r == exchange.res
     IN  /\ v.t = "Response" =>
               r = [NoResponse EXCEPT !.settled = "resolved", !.passthrough = v]
         /\ v.t = "string" =>
               /\ r.settled = "resolved" /\ r.status = 200
               /\ r.hasBody /\ r.text = v.text
               /\ r.hasEtag /\ r.etag = <<"etag of ">> \o v.text
         /\ v.t \in {"object", "null", "unserialisable"} =>
               /\ r.settled = "resolved" /\ r.status = 200
               /\ r.hasBody /\ r.hasEtag /\ r.etag = <<"etag of ">> \o r.text
               /\ v.t = "null" => r.text = <<"null">>
               /\ v.t = "object" =>
                     r.text = <<"{">> \o JsonMembers(v.props) \o <<"}">>
         /\ v.t = "undefined" =>
               /\ r.settled = "resolved" /\ r.status = 200
               /\ ~r.hasBody /\ ~r.hasEtag

\* C9: the status of a problem response comes from the thrown value: when
\* it is an object whose statusCode is a number that is a known HTTP
\* status, the status of the response and the status of the body are that
\* code and the title is its status text; otherwise the status is 500.
C9_ProblemStatus ==
  (call.op = "request" /\ exchange.invoked /\ exchange.outcome.how = "throw") =>
     LET error == exchange.outcome.error
         code == IF ValidStatusCode(error) THEN error.statusCode.n ELSE 500
     IN  /\ exchange.res.settled = "resolved"
         /\ exchange.res.status = code
         /\ exchange.problem.status = code
         /\ exchange.problem.title = STATUS_TEXT[code]
\* ------------------------------------------------------------------------
\* Properties of the start-up failures
\* ------------------------------------------------------------------------

\* the classes of the registered versions, in the order listen() visits them
RECURSIVE VersionControllers(_)
VersionControllers(vs) ==
  IF vs = <<>> THEN <<>> ELSE Head(vs).controllers \o VersionControllers(Tail(vs))

\* a class that registerClass was never called for
NeverRegistered(target) == minted[target] = <<>>

\* the step is the part of listen() that follows Container.build
ListenCompletes ==
  /\ call'.op = "listen"
  /\ listen.pc = "building"
  /\ build.pc = "built"
  /\ listen'.pc \in {"rejected", "listening"}

RoutesWithoutController(c) ==
  /\ program.methods[c] # <<>>
  /\ ~\E m \in controllers : m.key \in Range(minted[c])

\* the parts of a message
Mentions(message, part) == \E i \in 1..Len(message) : message[i] = part

\* C13: buildControllerRoutes fails with a RouterError that identifies the
\* controller and the method and path of the route when the class owning
\* the route has no controller metadata (an @Service with a route
\* decorator): the call returns no ControllerRoute for that class, so none
\* of its routes is registered with the driver, and listen() rejects
\* without starting a server.
C13_RouteWithoutControllerFails ==
  /\ \A i \in 1..Len(listen.steps) :
        LET step == listen.steps[i] IN
        (step.op = "buildControllerRoutes"
           /\ RoutesWithoutController(step.controller))
        => LET route == program.methods[step.controller][1] IN
           /\ ~step.ok
           /\ i = Len(listen.steps)
           /\ listen.pc = "rejected"
           /\ servers = listen.servers
           /\ listen.error = "RouterError"
           /\ Mentions(listen.message, program.name[step.controller])
           /\ Mentions(listen.message, route.method)
           /\ \E k \in 1..Len(listen.message) :
                 SubSeq(listen.message, k, Len(listen.message)) = route.path
  /\ \A k \in 1..Len(driverRoutes) : \A m \in driverRoutes[k].methods :
        ~RoutesWithoutController(RouteClass(m.handler.route))

\* listen() has set up the @Service B, whose method carries @Get, after it
\* registered the route of controller A, and buildControllerRoutes failed
C13_Witness ==
  /\ listen.pc = "rejected"
  /\ listen.error = "RouterError"
  /\ Last(listen.steps) = Step("buildControllerRoutes", "v1", "B", FALSE)
  /\ program.path["B"] = NoPath
  /\ \E i \in 1..Len(listen.steps) :
        listen.steps[i] = Step("registerRoute", "v1", "A", TRUE)

\* the kind under which a class is registered
RegisteredAs(target) == RegistryGet(typeKey[target]).type

\* a class whose first route declares a body class that is registered, and
\* not as an InputType
BodyIsNotInputType(c) ==
  /\ program.methods[c] # <<>>
  /\ LET body == program.methods[c][1].body IN
     /\ body # NoClass
     /\ ~NeverRegistered(body)
     /\ RegisteredAs(body) # "InputType"

\* C14: when a route declares a body class whose registration kind is not
\* InputType, building its handler fails with RouterError at start-up:
\* listen() rejects there without starting a server, and no handler with
\* such a body class is ever in the table requests are dispatched against,
\* nor is a controller method ever invoked with a body of such a class.
C14_BodyMustBeInputType ==
  /\ \A i \in 1..Len(listen.steps) :
        LET step == listen.steps[i] IN
        (step.op = "buildControllerRoutes" /\ BodyIsNotInputType(step.controller))
        => /\ ~step.ok
           /\ i = Len(listen.steps)
           /\ listen.pc = "rejected"
           /\ listen.error = "RouterError"
           /\ servers = listen.servers
  /\ \A k \in 1..Len(driverRoutes) : \A m \in driverRoutes[k].methods :
        /\ ~BodyIsNotInputType(RouteClass(m.handler.route))
        /\ m.handler.bodyClass # NoClass
           => RegisteredAs(m.handler.bodyClass) = "InputType"
  /\ exchange.args.body.t = "instance"
     => RegisteredAs(exchange.args.body.class) = "InputType"

\* listen() has stopped at the routes of controller A, whose POST route
\* declares the @ObjectType class Out as its body
C14_Witness ==
  /\ listen.pc = "rejected"
  /\ listen.error = "RouterError"
  /\ Last(listen.steps) = Step("buildControllerRoutes", "v1", "A", FALSE)
  /\ program.methods["A"][1].body = "Out"
  /\ RegisteredAs("Out") = "ObjectType"

\* ------------------------------------------------------------------------
\* Properties of the route paths
\* ------------------------------------------------------------------------

\* the non-empty segments of a version, a controller path and a route path,
\* in that order
NonEmptySegments(version, controllerPath, routePath) ==
  SelectSeq(<<version>> \o controllerPath \o routePath, LAMBDA seg : seg # "")

\* C12: for every version v, controller path c and route path r, the path
\* under which the route built by buildControllerRoutes is registered is "/"
\* followed by the non-empty segments of v, c and r in that order, joined by
\* single slashes: it starts with "/" + v, holds no "//" and has no
\* trailing slash.
C12_RoutePathIsJoinedSegments ==
  \A i \in 1..Len(driverRoutes) : \A m \in driverRoutes[i].methods :
     LET d == RouteDecl(m.handler.route)
         c == program.path[RouteClass(m.handler.route)]
     IN  /\ driverRoutes[i].path = NonEmptySegments("v1", c, d.path)
         /\ Head(driverRoutes[i].path) = "v1"
         /\ \A k \in 1..Len(driverRoutes[i].path) : driverRoutes[i].path[k] # ""

\* ------------------------------------------------------------------------
\* Properties of the container build
\* ------------------------------------------------------------------------

\* the positions, counted from 1, of the descriptors without a class
Classless(dependencies) ==
  {i \in 1..Len(dependencies) : dependencies[i] = NoClass}

FirstClassless(dependencies) ==
  CHOOSE i \in Classless(dependencies) : \A j \in Classless(dependencies) : i <= j

\* the registration of an injectable that Container.build cannot accept
InvalidRegistration(target) ==
  \/ ~program.hasRegister[target]
  \/ Classless(program.dependencies[target]) # {}

\* the step is the one in which Container.build throws
BuildAborts == call'.op = "build" /\ build.pc # "failed" /\ build'.pc = "failed"

C16_BuildAllOrNothing ==
  build.pc = "failed" => bindings = build.before

\* ------------------------------------------------------------------------
\* Properties of the order of start-up
\* ------------------------------------------------------------------------

\* the calls listen() makes for one controller with n routes that all succeed
ControllerSteps(version, controller, n) ==
  <<Step("setupClass", version, controller, TRUE),
    Step("buildControllerRoutes", version, controller, TRUE)>>
    \o [i \in 1..n |-> Step("registerRoute", version, controller, TRUE)]

RECURSIVE ControllersSteps(_, _)
ControllersSteps(version, ctrls) ==
  IF ctrls = <<>> THEN <<>>
  ELSE ControllerSteps(version, Head(ctrls), Len(program.methods[Head(ctrls)]))
         \o ControllersSteps(version, Tail(ctrls))

RECURSIVE VersionsSteps(_)
VersionsSteps(vs) ==
  IF vs = <<>> THEN <<>>
  ELSE ControllersSteps(Head(vs).key, Head(vs).controllers) \o VersionsSteps(Tail(vs))

\* the calls of a listen() in which nothing fails
ExpectedSteps(vs) ==
  <<Step("Container.build", "", NoClass, TRUE)>>
    \o VersionsSteps(vs)
    \o <<Step("Driver.listen", "", NoClass, TRUE)>>

\* C17: each listen() call first runs Container.build() to completion; then,
\* for each registered version and each of its controllers in registration
\* order, it calls setupClass(controller), then buildControllerRoutes(
\* container, version, controller), then Driver.registerRoute for each
\* built route; and it calls Driver.listen last, exactly once, after every
\* route has been registered.  A call that fails has made the same calls up
\* to the one that failed, and has not called Driver.listen.
C17_ListenStepsInOrder ==
  [][ListenCompletes =>
       LET done == listen'.steps
           all == ExpectedSteps(versions)
       IN  /\ build.pc = "built" /\ build.queue = <<>>
           /\ done[1] = Step("Container.build", "", NoClass, TRUE)
           /\ listen'.pc = "listening"
              => /\ done = all
                 /\ Cardinality({i \in 1..Len(done) : done[i].op = "Driver.listen"}) = 1
                 /\ Last(done).op = "Driver.listen"
                 /\ servers' = servers + 1
           /\ listen'.pc = "rejected"
              => /\ Len(done) < Len(all)
                 /\ \A i \in 1..(Len(done) - 1) : done[i] = all[i]
                 /\ Last(done) = [all[Len(done)] EXCEPT !.ok = FALSE]
                 /\ servers' = servers
  ]_vars

\* a listen() over two versions, the first with controllers B and A, has
\* started a server
C17_Witness ==
  /\ listen.pc = "listening"
  /\ Len(versions) = 2
  /\ versions[1].controllers = <<"B", "A">>
  /\ Len(listen.steps) > 10
  /\ call.op = "listen"

\* ------------------------------------------------------------------------
\* Properties of the driver's life cycle
\* ------------------------------------------------------------------------

\* C18: registerRoute is only valid while the driver is idle: once
\* Driver.listen has been called, a registerRoute call does not add a route
\* to the table the running server dispatches requests against.
C18_NoRouteAddedWhileListening ==
  [][servers > 0 => driverRoutes' = driverRoutes]_vars

\* C19: the route table is built fresh on every listen() call: a second
\* listen() on the same application with the same registered versions
\* starts from an empty route table and fresh bindings, so it succeeds and
\* serves the same routes as the call before it.
C19_SecondListenSucceeds ==
  [][(ListenCompletes /\ listen.served = [ok |-> TRUE, versions |-> versions])
       => /\ listen'.pc = "listening"
          /\ TableKeys(driverRoutes') = TableKeys(driverRoutes)]_vars

\* ------------------------------------------------------------------------
\* Properties of the construction
\* ------------------------------------------------------------------------

\* a driver option that is neither a Driver object nor a DriverStrategy value
UnsupportedDriver(driver) ==
  driver.t = "string" /\ driver.value \notin DriverStrategy

ArgumentClasses(insts, args) == [p \in 1..Len(args) |-> insts[args[p]].class]

\* C21: for every Injectable bound by build(), resolving it supplies its
\* constructor with the instances of its declared dependencies in
\* descriptor order; this holds for every build() run in the process, each
\* on a container of its own, and also for a class that has the same name
\* as another registered class.
C21_BoundClassesResolve ==
  build.pc = "built" =>
    \A i \in 1..Len(bindings) :
       LET r == containerGet(ContainerState, bindings[i].token) IN
       /\ r.error = NoError
       /\ r.instances[r.inst].class = bindings[i].target
       /\ ArgumentClasses(r.instances, r.instances[r.inst].args)
            = program.dependencies[bindings[i].target]

\* ------------------------------------------------------------------------
\* Properties of the matching of requests
\* ------------------------------------------------------------------------

\* the position of the first registerRoute call of listen() for a path
FirstAttempt(path) ==
  CHOOSE i \in 1..Len(listen.attempts) :
    /\ listen.attempts[i].path = path
    /\ \A j \in 1..(i - 1) : listen.attempts[j].path # path

\* C22: the driver matches a request path against the registered paths in
\* insertion order and the first matching path alone decides the outcome:
\* when several registered patterns match, the handler of the
\* earliest-registered matching path is used, with the groups of that
\* pattern, and if that path has no handler for the request method the
\* response is 404 even though a later-registered matching path has one.
C22_FirstMatchingPathDecides ==
  /\ \A k, j \in 1..Len(driverRoutes) :
        k < j => FirstAttempt(driverRoutes[k].path) < FirstAttempt(driverRoutes[j].path)
  /\ (call.op = "request" /\ MatchingPaths(exchange.req.path) # {}) =>
        LET req == exchange.req
            first == driverRoutes[FirstMatching(req.path)]
        IN  IF MethodsHas(first.methods, req.method)
            THEN /\ exchange.invoked
                 /\ exchange.route = MethodsGet(first.methods, req.method).handler.route
                 /\ exchange.args.params = PatternGroups(first.path, req.path)
            ELSE /\ ~exchange.invoked
                 /\ exchange.route = "none"
                 /\ exchange.res.status = 404

\* GET /v1/a/items/special, which the pattern items/:id registered first and
\* the literal path registered after it both match, went to the handler of
\* the pattern
C22_Witness ==
  /\ call.op = "request"
  /\ exchange.req = HttpRequest("GET", <<"v1", "a", "items", "special">>, EmptyBody)
  /\ Cardinality(MatchingPaths(exchange.req.path)) = 2
  /\ exchange.invoked
  /\ exchange.route = "A.m1"
  /\ exchange.args.params = <<<<":id", "special">>>>
  /\ \E k \in 1..Len(driverRoutes) :
        /\ driverRoutes[k].path = <<"v1", "a", "items", "special">>
        /\ MethodsHas(driverRoutes[k].methods, "GET")

\* ------------------------------------------------------------------------
\* Properties of the construction of instances
\* ------------------------------------------------------------------------

\* the classes that have an instance
Constructed(insts) == {insts[i].class : i \in 1..Len(insts)}

\* the classes a class depends on, directly or through other classes
RECURSIVE Closure(_)
Closure(c) ==
  Range(program.dependencies[c])
    \cup UNION {Closure(d) : d \in Range(program.dependencies[c])}

\* C23: Container.build() records bindings only and constructs no instance
\* of any Injectable; an instance of a class is first constructed when
\* setupClass or getClassMethod first resolves that class or a class that
\* transitively depends on it: such a call constructs the class it resolves
\* and those classes it depends on that have no instance yet, and nothing
\* else; on a built container that has constructed nothing, setupClass of a
\* class constructs that class and every class it depends on.
C23_InstancesAreConstructedOnFirstUse ==
  [][
    /\ call'.op = "build" => (instances' = instances /\ cache' = cache)
    /\ Constructed(instances') \ Constructed(instances) # {}
       => /\ call'.op \in {"setupClass", "getClassMethod"}
          /\ LET root == Last(instances').class IN
             Constructed(instances') \ Constructed(instances)
               = ({root} \cup Closure(root)) \ Constructed(instances)
    /\ (build.pc = "built" /\ instances = <<>>)
       => \A target \in Injectables :
             LET r == setupClass(ContainerState, target) IN
             r.error = NoError
               => Constructed(r.instances) = {target} \cup Closure(target)
  ]_vars

\* after a build that bound three classes, setupClass(A) has constructed B
\* and then A, which depends on it, and C, which nothing has resolved, has
\* no instance
C23_Witness ==
  /\ build.pc = "built"
  /\ call.op = "setupClass"
  /\ call.error = NoError
  /\ Len(bindings) = 3
  /\ program.dependencies["A"] = <<"B">>
  /\ Len(instances) = 2
  /\ instances[1].class = "B"
  /\ instances[2].class = "A" /\ instances[2].args = <<1>>
  /\ "C" \notin Constructed(instances)

\* ------------------------------------------------------------------------
\* Properties of the order of a build
\* ------------------------------------------------------------------------

\* the keys a build has bound so far, followed by the keys it has yet to bind
BuildOrder(b, bs) ==
  [i \in 1..(Len(bs) - Len(b.before)) |-> bs[Len(b.before) + i].token]
    \o [i \in 1..Len(b.queue) |-> b.queue[i].key]

\* a Container.build() call begins, on its own or in listen()
BuildStarts == build'.builds = build.builds + 1

\* C24: Container.build() processes Injectable registrations one at a time
\* in registry insertion order: the call lists the registered injectables
\* in the order of their registerClass calls and invokes the registration
\* method of the first; the registration method of the next Injectable is
\* not invoked until that of the current one has resolved and the current
\* class has been bound; and while a registration method has not resolved,
\* nothing else moves the build on, so build() and listen() stay blocked.
C24_BuildIsSequential ==
  [][
    /\ BuildStarts
       => /\ bindings' = bindings
          /\ build'.before = bindings
          /\ Range(build'.queue) = {r \in Range(classRegistrations) :
                                      r.type = "Injectable"}
          /\ \A i, j \in 1..Len(build'.queue) :
                i < j => build'.queue[i].key < build'.queue[j].key
          /\ build'.queue = <<>> <=> build'.pc = "built"
    /\ (build.pc = "awaiting" /\ call'.op = "build")
       => /\ BuildOrder(build', bindings') = BuildOrder(build, bindings)
          /\ \/ /\ build'.pc = "failed"
                /\ build'.queue = build.queue
                /\ bindings' = bindings
             \/ /\ build'.queue = Tail(build.queue)
                /\ bindings' = Append(bindings,
                                      [token |-> Head(build.queue).key,
                                       target |-> Head(build.queue).target])
                /\ build'.queue = <<>> <=> build'.pc = "built"
    /\ (build.pc = "awaiting" /\ call'.op # "build")
       => UNCHANGED <<build, bindings, listen, servers, driverRoutes>>
    /\ (build.pc = "awaiting" /\ listen.pc = "building")
       => servers = listen.servers
  ]_vars

\* in a listen(), B, registered first, is bound and the build waits for the
\* registration method of A
C24_Witness ==
  /\ listen.pc = "building"
  /\ build.pc = "awaiting"
  /\ Len(build.queue) = 1
  /\ Head(build.queue).target = "A"
  /\ Len(bindings) = Len(build.before) + 1
  /\ Last(bindings).target = "B"
  /\ typeKey["B"] < typeKey["A"]

\* ------------------------------------------------------------------------
\* Properties of the order of registration
\* ------------------------------------------------------------------------

\* a class that carries no registration key
Keyless(c) == typeKey[c] = NoKey

\* C25: a dependency only has to carry a registration key when build() runs:
\* build() followed by setupClass(A) succeeds and wires A's dependencies
\* whether A was registered before or after the classes it depends on (they
\* being registered injectables), and if a referenced class carries no
\* registration key build() aborts with a fatal startup error, at the first
\* class that references it.
C25_DependenciesNeedKeysAtBuildOnly ==
  /\ (build.pc = "built" /\ build.before = <<>>) =>
        \A i \in 1..Len(bindings) :
           LET r == setupClass(ContainerState, bindings[i].target) IN
           /\ r.error = NoError
           /\ r.instances[r.inst].class = bindings[i].target
           /\ ArgumentClasses(r.instances, r.instances[r.inst].args)
                = program.dependencies[bindings[i].target]
  /\ build.pc = "built" =>
        \A i \in 1..Len(bindings) :
           \A d \in Range(program.dependencies[bindings[i].target]) : ~Keyless(d)
  /\ build.pc = "failed" =>
        LET deps == program.dependencies[Head(build.queue).target] IN
        /\ build.error = "RegistrationError"
        /\ build.position \in 0..(Len(deps) - 1)
        /\ Keyless(deps[build.position + 1])
        /\ \A j \in 1..build.position : ~Keyless(deps[j])

\* A, a controller defined before the service B it depends on, was set up
\* after the build: B was constructed and handed to A
C25_Witness ==
  /\ build.pc = "built"
  /\ build.before = <<>>
  /\ typeKey["A"] # NoKey
  /\ typeKey["A"] < typeKey["B"]
  /\ program.dependencies["A"] = <<"B">>
  /\ call.op = "setupClass"
  /\ call.error = NoError
  /\ Len(instances) = 2
  /\ instances[1].class = "B"
  /\ instances[2].class = "A" /\ instances[2].args = <<1>>

\* ------------------------------------------------------------------------
\* Properties of the route metadata
\* ------------------------------------------------------------------------

\* the entries of the route metadata that have a given key
EntriesWithKey(rs, key) == {i \in 1..Len(rs) : rs[i].key = key}

\* C26: route metadata holds exactly one entry per decorated controller
\* method: registerRoute with a key that is already present is a no-op, so
\* instantiating a controller any number of times (in several containers)
\* neither duplicates nor changes its entries, and an entry's method, path,
\* controller key and body key never change after creation.
C26_OneRouteEntryPerMethod ==
  [][
    /\ Len(routes') >= Len(routes)
    /\ \A i \in 1..Len(routes) : routes'[i] = routes[i]
    /\ Len(routes') > Len(routes) => call'.op = "setupClass"
    /\ \A c \in Constructed(instances') : \A i \in 1..Len(program.methods[c]) :
          LET d == program.methods[c][i]
              entries == EntriesWithKey(routes', d.key)
          IN  /\ Cardinality(entries) = 1
              /\ \A e \in entries :
                    /\ routes'[e].method = d.method
                    /\ routes'[e].path = d.path
                    /\ routes'[e].methodName = d.methodName
                    /\ routes'[e].controller = typeKey[c]
                    /\ routes'[e].body = IF d.body = NoClass THEN NoKey
                                         ELSE typeKey[d.body]
    /\ \A i \in 1..Len(routes') :
          \E c \in Injectables : \E d \in Range(program.methods[c]) :
             d.key = routes'[i].key
  ]_vars

\* in a second container, setupClass(A) has constructed B and A anew and
\* their initializers added nothing: the three entries were there already
C26_Witness ==
  /\ call.op = "setupClass"
  /\ call.error = NoError
  /\ call.constructed = 2
  /\ call.registered = 0
  /\ build.builds = 2
  /\ Len(routes) = 3
  /\ Constructed(instances) = {"A", "B"}

\* ------------------------------------------------------------------------
\* Properties of concurrent requests
\* ------------------------------------------------------------------------

\* the body a route hands to its controller method for a request
ParsedBody(route, request) ==
  IF RouteDecl(route).body # NoClass /\ request.body.t = "json"
  THEN [t |-> "instance", class |-> RouteDecl(route).body,
        data |-> request.body.data]
  ELSE NoBody

\* request k of rs was handled from its own Context, request and result
OwnExchange(rs, k) ==
  LET r == rs[k]
      x == r.exchange
  IN  /\ r.ctx = Context(k, r.request)
      /\ \A j \in 1..Len(rs) : j # k => rs[j].ctx # r.ctx
      /\ x.req = r.request
      /\ x.invoked
         => /\ r.context = k
            /\ x.args.request = r.request
            /\ x.args.params =
                 PatternGroups(driverRoutes[FirstMatching(r.request.path)].path,
                               r.request.path)
            /\ x.args.body = ParsedBody(x.route, r.request)
      /\ (r.pc = "done" /\ x.invoked)
         => x.res = IF x.outcome.how = "return"
                    THEN processResponse(x.outcome.value, NoInit)
                    ELSE caughtResponse(x.outcome.error)
      /\ r.pc = "done" => x.res.settled # "none"

\* a step of the handling of request call'.id
RequestStep == call'.op \in {"accept", "deserialised", "settled"}

DecoratedRoutes(c) ==
  [i \in 1..Len(program.methods[c]) |-> program.methods[c][i].key]

\* an initializer of the class fails: a decorated method names a body class
\* that is not registered
InitializerFails(c) ==
  \E d \in Range(program.methods[c]) : d.body # NoClass /\ typeKey[d.body] = NoKey

\* the driver table dr serves the decorated route d of controller c under
\* the given version
Serves(dr, version, c, d) ==
  \E k \in 1..Len(dr) :
     /\ dr[k].path = buildRoutePath(version, program.path[c], d.path)
     /\ \E m \in dr[k].methods : m.method = d.method /\ m.handler.route = d.key

\* C28: route metadata of a controller is recorded by its instance
\* initializers on construction, not at class definition.  For a
\* registered controller that has never been instantiated
\* buildControllerRoutes yields no ControllerRoute (and fails only where the
\* construction itself fails, in an initializer); once the controller has
\* been instantiated it returns exactly one ControllerRoute per decorated
\* method.  A route entry is only ever added by a call that constructs.
\* Application.listen() sets each controller up right before it builds its
\* routes, and when it succeeds every decorated route of every registered
\* controller is in the served table.
C28_RoutesAreRecordedOnConstruction ==
  [][
    /\ (call'.op = "buildControllerRoutes" /\ typeKey[call'.controller] # NoKey)
       => IF call'.controller \notin Constructed(instances)
          THEN /\ call'.returned = <<>>
               /\ call'.error # NoError => InitializerFails(call'.controller)
               /\ getRouteMetadataByController(typeKey[call'.controller]) = <<>>
                  => call'.error = NoError /\ UNCHANGED instances
          ELSE /\ call'.error = NoError
               /\ call'.returned = DecoratedRoutes(call'.controller)
    /\ call'.op = "defineClass" => UNCHANGED routes
    /\ \A c \in Injectables :
          c \notin Constructed(instances') /\ ~InitializerFails(c)
          => \A i \in 1..Len(routes') : RouteClass(routes'[i].key) # c
    /\ \A i \in 2..Len(listen'.steps) :
          listen'.steps[i].op = "buildControllerRoutes"
          => /\ listen'.steps[i - 1].op = "setupClass"
             /\ listen'.steps[i - 1].controller = listen'.steps[i].controller
             /\ listen'.steps[i - 1].ok
    /\ listen'.pc = "listening"
       => \A v \in 1..Len(versions) :
            \A p \in 1..Len(versions[v].controllers) :
               LET c == versions[v].controllers[p] IN
               /\ c \in Constructed(instances')
               /\ \A d \in Range(program.methods[c]) :
                     Serves(driverRoutes', versions[v].key, c, d)
  ]_vars

\* in a built container B has been set up and A has not: the entry of B's
\* route is recorded, and buildControllerRoutes for A has returned no route
C28_Witness ==
  /\ call.op = "buildControllerRoutes"
  /\ call.controller = "A"
  /\ call.error = NoError
  /\ call.returned = <<>>
  /\ build.pc = "built"
  /\ Constructed(instances) = {"B"}
  /\ Len(routes) = 1
  /\ typeKey["A"] # NoKey

\* ------------------------------------------------------------------------
\* Properties of the process-wide registry
\* ------------------------------------------------------------------------

\* the classes that have an Injectable registration in the registry
RegisteredInjectables ==
  {classRegistrations[i].target :
     i \in {j \in 1..Len(classRegistrations) :
              classRegistrations[j].type = "Injectable"}}

\* a registration Container.build() cannot bind: no register(), a descriptor
\* without a class, or a dependency class that carries no registration key
Unbuildable(c) ==
  \/ InvalidRegistration(c)
  \/ \E d \in Range(program.dependencies[c]) : d # NoClass /\ Keyless(d)

\* the step in which listen() settles, after a build that returned or threw
ListenSettles ==
  /\ call'.op = "listen"
  /\ listen.pc = "building"
  /\ listen'.pc \in {"rejected", "listening"}

\* C29: Container.build() binds every Injectable of the process-wide
\* registry, whether or not the application's controllers reach it.  A
\* build that returns has bound exactly the registered Injectables, once
\* each.  The build of listen() throws exactly when some registered
\* Injectable has an invalid registration, and listen() then rejects with
\* the build's error and starts no server; this holds for every application
\* of the process until the registration is cleared, after which an
\* application whose controllers and their dependencies are registered
\* listens.
C29_BuildBindsTheWholeRegistry ==
  [][
    /\ (build.pc # "built" /\ build'.pc = "built")
       => /\ {bindings'[i].target : i \in 1..Len(bindings')} = RegisteredInjectables
          /\ Len(bindings') = Cardinality(RegisteredInjectables)
          /\ \A c \in RegisteredInjectables : ~Unbuildable(c)
    /\ ListenSettles
       => /\ build.pc = "failed" <=> \E c \in RegisteredInjectables : Unbuildable(c)
          /\ build.pc = "failed"
             => /\ listen'.pc = "rejected"
                /\ listen'.error = build.error
                /\ servers' = servers
          /\ (/\ build.pc = "built"
              /\ \A v \in 1..Len(versions) :
                   \A p \in 1..Len(versions[v].controllers) :
                      {versions[v].controllers[p]}
                        \cup Closure(versions[v].controllers[p])
                          \subseteq RegisteredInjectables)
             => listen'.pc = "listening"
  ]_vars

\* the listen() of a second application has started a server after the
\* registration of C, which A does not use and which made the build of the
\* first application throw, was cleared
C29_Witness ==
  /\ listen.pc = "listening"
  /\ build.builds = 2
  /\ servers = 1
  /\ Unbuildable("C")
  /\ typeKey["C"] \in cleared
  /\ "C" \notin Closure("A")
  /\ {bindings[i].target : i \in 1..Len(bindings)} = {"A", "B"}

\* ------------------------------------------------------------------------
\* Properties of a request body that does not parse
\* ------------------------------------------------------------------------

\* the last request reached a route that declares a body class, with a
\* non-empty body that is not valid JSON
UnparsableBody ==
  /\ call.op = "request"
  /\ exchange.route # "none"
  /\ RouteDecl(exchange.route).body # NoClass
  /\ exchange.req.body.t = "invalid"

\* C30: for a route with a declared body type, a non-empty request body
\* that is not valid JSON makes the route handler respond with a problem
\* response of status 500 ("Internal Server Error",
\* application/problem+json) whose detail is the message of the parse
\* error, and the controller method is not invoked for that request.
C30_UnparsableBodyIs500 ==
  UnparsableBody =>
     /\ ~exchange.invoked
     /\ exchange.args = NoArgs
     /\ exchange.outcome = NoOutcome
     /\ exchange.caught
     /\ exchange.problem = [status |-> 500, title |-> STATUS_TEXT[500],
                            detail |-> SyntaxError.message]
     /\ exchange.res.settled = "resolved"
     /\ exchange.res.status = 500
     /\ exchange.res.contentType = "application/problem+json"
     /\ exchange.res.hasBody
     /\ exchange.res.text = JSONStringify(ProblemObject(exchange.problem))

\* POST /v1/a/items, whose route declares the body class In, was sent "{"
\* and answered 500 with the parse error as detail
C30_Witness ==
  /\ UnparsableBody
  /\ exchange.req = HttpRequest("POST", <<"v1", "a", "items">>, InvalidBody)
  /\ exchange.route = "A.m2"
  /\ exchange.res.status = 500
  /\ exchange.problem.detail = <<"Unexpected token">>

====
